---------------------------- MODULE Spec2Model ----------------------------
(***************************************************************************)
(* Progress tracking of LocalSongs (backend/src): the multi-file tracker   *)
(* and its registry (api/v1/endpoints/multi_download.py), the single-job   *)
(* tracker, registry, cancel endpoint and SSE streamers                    *)
(* (api/v1/endpoints/progress.py, multi_download.py), and the runners that *)
(* write to them (services/download_service.py, api/v1/endpoints/          *)
(* download.py).                                                           *)
(*                                                                         *)
(* Python values are modelled as follows: a dict is a record or a function *)
(* whose DOMAIN is the set of keys present; None is the string None;       *)
(* an f-string message is the tuple of its literal tag and its arguments;  *)
(* timestamps (time.time()) are left out.                                  *)
(***************************************************************************)
EXTENDS Integers, Sequences, FiniteSets, TLC

VARIABLES
    executor,              \* download.py:36, the pool: its work queue and its busy workers
    background,            \* position of each job's background task, when several jobs run
    current_file_index,    \* playlist_service.py:325, the Spotify runner's index cursor
    line,                  \* playlist_service.py:327, the output line read last
    tracker,               \* the MultiFileProgressTracker instance in use
    multi_download_store,  \* multi_download.py:28, download_id -> snapshot
    lastCall,              \* history: the tracker method called last, with its arguments
    calls,                 \* history: number of tracker calls made so far
    multi_pc,              \* position of the playlist job's background task and runner
    multi_result,          \* the MultiDownloadResult returned to the background task
    progress_store,        \* progress.py:22, download_id -> snapshot
    single_pc,             \* position of the single job's background task and runner
    runner_cancelled,      \* _cancelled of the ProgressTracker the runner holds
    result_success,        \* DownloadResult.success returned to the background task
    hooks,                 \* history: progress-hook invocations so far
    cancel_history,        \* history: "cancelled" once a cancel found the job downloading,
                           \*          "hook_ran" once a downloading hook ran after that
    request,               \* position of the request that started the single job:
                           \*   "background" (POST /download-with-progress returned the
                           \*   id), "waiting" (POST /download awaits the result),
                           \*   "timed_out" (its wait_for expired), "returned"
    tool,                  \* history: invocations of the external tool (spotdl) by the
                           \*   job, and whether one found it missing or failed to start
    response,              \* outcome of the last request answered
    stream,                \* the SSE generator: kind, position, iteration, last_progress,
                           \*   and history: the status read by the latest poll
                           \*   (observed) and whether that poll yielded the snapshot
                           \*   under the emission rule (sent)
    events                 \* history: what the generator has yielded (the last two
                           \*          events, the terminal statuses among the snapshots, and the
                           \*          number of events with status completed)

multiVars == <<tracker, multi_download_store, lastCall, calls, multi_pc, multi_result>>

singleVars == <<progress_store, single_pc, runner_cancelled, result_success, hooks, request, tool,
                cancel_history>>

streamVars == <<stream, events>>

poolVars == <<executor, background>>

runnerVars == <<current_file_index, line>>

vars == <<executor, background, current_file_index, line,
          tracker, multi_download_store, lastCall, calls, multi_pc, multi_result,
          progress_store, single_pc,
          runner_cancelled, result_success, hooks, request, tool, cancel_history, response,
          stream, events>>

-----------------------------------------------------------------------------
(* Bounds of the model *)

MaxTotalFiles == 4   \* total_files ranges over 0..MaxTotalFiles
MaxCalls == 3        \* tracker method calls per behaviour
MaxIdCalls == 2      \* tracker method calls per behaviour when two ids are in use
MaxPoolJobs == 3     \* jobs accepted while the pool is observed
MaxHooks == 2        \* progress-hook invocations per download
MaxPlaylist == 3     \* tracks of the playlist a job is accepted for
MaxPlaylistHooks == 1  \* progress-hook invocations per playlist download
HookTotalBytes == 2  \* total_bytes of the file being downloaded

\* The streams' iteration budgets, scaled down: the code's 600 (progress.py:116)
\* and 1800 (multi_download.py:225) polls of one second each.
max_iterations_single == 6
max_iterations_multi == 6

(* Input domains *)

None == "None"

MultiId == "m1"

TotalFilesChoices == 0..MaxTotalFiles

ProgressValues == {0, 50, 100}

FileStatuses == {"downloading"}

OverallStatuses == {"downloading", "completed", "failed", "error"}

\* The name callers pass for index i (playlist_service.py: info["tracks"][i],
\* or the fallback f"Track {i + 1}").
TrackNames ==
    <<"Track 1", "Track 2", "Track 3", "Track 4", "Track 5", "Track 6", "Track 7", "Track 8">>

TrackName(i) == TrackNames[i + 1]

Min(a, b) == IF a < b THEN a ELSE b

-----------------------------------------------------------------------------
(* MultiFileProgressTracker *)

\* __init__
NewTracker(download_id, total_files) ==
    [download_id |-> download_id,
     total_files |-> total_files,
     completed_files |-> 0,
     failed_files |-> 0,
     current_file_index |-> 0,
     current_file_progress |-> 0,
     current_file_name |-> "",
     current_file_status |-> "preparing",
     files_info |-> <<>>,
     overall_status |-> "starting",
     error |-> None]

\* Mutant: the result is not clamped at 100.
calculate_overall_progress_noclamp(t) ==
    IF t.total_files = 0 THEN 0
    ELSE (t.completed_files * 100 + t.current_file_progress) \div t.total_files

\* Mutant: the in-flight file's share is rounded before it is added.
calculate_overall_progress_rounded(t) ==
    IF t.total_files = 0 THEN 0
    ELSE Min(((t.completed_files * 100) \div t.total_files)
             + (t.current_file_progress \div t.total_files), 100)

\* _calculate_overall_progress: int() of the sum of the two float quotients
\* a/n + b/n, which is the sum of the integer quotients plus the carry of the
\* two remainders (the float sum equals the exact one for every total_files
\* up to 200, completed_files up to total_files + 2 and progress in 0..100).
calculate_overall_progress(t) ==
    IF t.total_files = 0 THEN 0
    ELSE LET n == t.total_files
             a == t.completed_files * 100
             b == t.current_file_progress
             completed_contribution == [q |-> a \div n, r |-> a % n]
             current_contribution == [q |-> b \div n, r |-> b % n]
         IN Min(completed_contribution.q + current_contribution.q
                + ((completed_contribution.r + current_contribution.r) \div n), 100)

\* The dict every method stores under download_id.
Snapshot(t, message, error) ==
    [download_id |-> t.download_id,
     total_files |-> t.total_files,
     completed_files |-> t.completed_files,
     failed_files |-> t.failed_files,
     current_file_index |-> t.current_file_index,
     current_file_progress |-> t.current_file_progress,
     current_file_name |-> t.current_file_name,
     current_file_status |-> t.current_file_status,
     overall_progress |-> calculate_overall_progress(t),
     overall_status |-> t.overall_status,
     message |-> message,
     error |-> error,
     files_info |-> t.files_info]

\* Mutant: the assignment overwrites every entry of the dict.
PutEvery(store, key, value) == [k \in (DOMAIN store) \cup {key} |-> value]

\* dict assignment store[key] = value
Put(store, key, value) ==
    [k \in (DOMAIN store) \cup {key} |-> IF k = key THEN value ELSE store[k]]

\* update_overall: the tracker after the call and the snapshot it stores.
update_overall(t, status, message, error) ==
    LET t1 == [t EXCEPT !.overall_status = status,
                        !.error = IF error # None THEN error ELSE t.error]
    IN [tracker |-> t1, entry |-> Snapshot(t1, message, error)]

\* Mutant: every placeholder carries the index 0.
PlaceholderAtZero(i) ==
    [index |-> 0, name |-> "", status |-> "pending", progress |-> 0,
     error |-> None, message |-> None]

\* The placeholder appended at position i while files_info is too short.
Placeholder(i) ==
    [index |-> i, name |-> "", status |-> "pending", progress |-> 0,
     error |-> None, message |-> None]

\* The while loop of update_current_file: grow files_info to file_index + 1.
Grow(files_info, file_index) ==
    [i \in 1..(IF Len(files_info) <= file_index THEN file_index + 1 ELSE Len(files_info)) |->
        IF i <= Len(files_info) THEN files_info[i] ELSE Placeholder(i - 1)]

\* update_current_file
update_current_file(t, file_index, file_name, progress, status, message) ==
    LET grown == Grow(t.files_info, file_index)
        t1 == [t EXCEPT !.current_file_index = file_index,
                        !.current_file_name = file_name,
                        !.current_file_progress = progress,
                        !.current_file_status = status,
                        !.files_info = [grown EXCEPT ![file_index + 1] =
                            [index |-> file_index, name |-> file_name,
                             status |-> status, progress |-> progress,
                             error |-> None, message |-> message]]]
    IN [tracker |-> t1,
        entry |-> Snapshot(t1, <<"Descargando", file_name, file_index + 1, t.total_files>>,
                           t1.error)]

\* Mutant: the counters are updated and the file's entry is left as it was.
complete_file_stale_entry(t, file_index, file_name, success, error) ==
    LET t1 == [t EXCEPT !.completed_files = IF success THEN @ + 1 ELSE @,
                        !.failed_files = IF success THEN @ ELSE @ + 1]
    IN [tracker |-> t1,
        entry |-> Snapshot(t1, <<IF success THEN "Completado" ELSE "Error", file_name>>,
                           t1.error)]

\* complete_file
complete_file(t, file_index, file_name, success, error) ==
    LET status == IF success THEN "completed" ELSE "failed"
        t1 == [t EXCEPT !.completed_files = IF success THEN @ + 1 ELSE @,
                        !.failed_files = IF success THEN @ ELSE @ + 1,
                        !.files_info =
                            IF file_index < Len(t.files_info)
                            THEN [@ EXCEPT ![file_index + 1] =
                                    [@ EXCEPT !.status = status,
                                              !.progress = IF success THEN 100 ELSE 0,
                                              !.error = error]]
                            ELSE @]
    IN [tracker |-> t1,
        entry |-> Snapshot(t1, <<IF success THEN "Completado" ELSE "Error", file_name>>,
                           t1.error)]

-----------------------------------------------------------------------------
(* ProgressTracker and the single-job registry (progress.py) *)

SingleId == "s1"

EmptyStore == <<>>

\* The dict ProgressTracker.update stores; download_url and ready_for_download
\* are the keys the single-job stream adds to it (absent: None / FALSE).
Entry(progress, status, message, error, filename, cancelled) ==
    [progress |-> progress, status |-> status, message |-> message, error |-> error,
     filename |-> filename, cancelled |-> cancelled,
     download_url |-> None, ready_for_download |-> FALSE]

\* Mutant: the filename is not stored.
update_without_filename(store, download_id, cancelled, progress, status, message, error, filename) ==
    Put(store, download_id, Entry(progress, status, message, error, None, cancelled))

\* ProgressTracker.update on the tracker whose _cancelled is `cancelled`
update(store, download_id, cancelled, progress, status, message, error, filename) ==
    Put(store, download_id, Entry(progress, status, message, error, filename, cancelled))

\* del store[key]
Remove(store, key) == [k \in (DOMAIN store) \ {key} |-> store[k]]

NoEvent == [status |-> "none", progress |-> -1, synthetic |-> FALSE]

IdleStream ==
    [kind |-> "none", pc |-> "idle", iteration |-> 0, last_progress |-> -1,
     observed |-> "none", sent |-> FALSE]

\* The glossary's terminal states.
TerminalStatuses == {"completed", "error", "cancelled", "timeout"}

NoEvents == [last |-> NoEvent, prev |-> NoEvent, terminal |-> {}, completed |-> 0]

NoSingleJob ==
    /\ progress_store = EmptyStore
    /\ single_pc = "idle"
    /\ runner_cancelled = FALSE
    /\ result_success = FALSE
    /\ hooks = 0
    /\ request = "none"
    /\ tool = [attempts |-> 0, missing |-> FALSE]
    /\ cancel_history = "none"

NoStream ==
    /\ stream = IdleStream
    /\ events = NoEvents

\* Nothing submitted to the pool, no background task.
NoPool ==
    /\ executor = [queue |-> <<>>, running |-> {}]
    /\ background = <<>>

\* The Spotify playlist runner has read no line.
NoRunner ==
    /\ current_file_index = 0
    /\ line = {}

-----------------------------------------------------------------------------
(* The tracker driven through its methods by any caller *)

\* The indices a caller may pass: 0 <= index < total_files.
ValidIndices(t) == 0..(t.total_files - 1)

\* No MultiDownloadResult yet.
NoResult == [success |-> FALSE, files |-> <<>>]

NoCall ==
    [op |-> "none", index |-> 0, name |-> "", progress |-> 0, status |-> "",
     success |-> FALSE, error |-> None, message |-> <<>>, filename |-> None]

\* create_multi_download_tracker(total_files), for every total_files
TrackerInit ==
    \E total_files \in TotalFilesChoices :
        LET r == update_overall(NewTracker(MultiId, total_files), "created",
                                <<"Preparando descarga", total_files>>, None)
        IN /\ tracker = r.tracker
           /\ multi_download_store = Put(<<>>, MultiId, r.entry)
           /\ lastCall = NoCall
           /\ calls = 0
           /\ multi_pc = "idle"
           /\ multi_result = NoResult
           /\ NoSingleJob
           /\ response = "none"
           /\ NoStream
           /\ NoPool
           /\ NoRunner

CallUpdateOverall ==
    /\ calls < MaxCalls
    /\ \E status \in OverallStatuses, error \in {None, "err"} :
        /\ error # None => status = "error"
        /\ LET r == update_overall(tracker, status, <<status>>, error)
           IN /\ tracker' = r.tracker
              /\ multi_download_store' = Put(multi_download_store, MultiId, r.entry)
              /\ lastCall' = [NoCall EXCEPT !.op = "update_overall", !.status = status,
                                            !.error = error]
    /\ calls' = calls + 1
    /\ UNCHANGED <<multi_pc, multi_result, singleVars, response, streamVars, poolVars, runnerVars>>

CallUpdateCurrentFile ==
    /\ calls < MaxCalls
    /\ \E file_index \in ValidIndices(tracker), progress \in ProgressValues,
          status \in FileStatuses :
        LET file_name == TrackName(file_index)
            r == update_current_file(tracker, file_index, file_name, progress, status, "")
        IN /\ tracker' = r.tracker
           /\ multi_download_store' = Put(multi_download_store, MultiId, r.entry)
           /\ lastCall' = [NoCall EXCEPT !.op = "update_current_file",
                                         !.index = file_index, !.name = file_name,
                                         !.progress = progress, !.status = status]
    /\ calls' = calls + 1
    /\ UNCHANGED <<multi_pc, multi_result, singleVars, response, streamVars, poolVars, runnerVars>>

CallCompleteFile ==
    /\ calls < MaxCalls
    /\ \E file_index \in ValidIndices(tracker), success \in BOOLEAN,
          error \in {None, "err"} :
        /\ success => error = None
        /\ LET file_name == TrackName(file_index)
               r == complete_file(tracker, file_index, file_name, success, error)
           IN /\ tracker' = r.tracker
              /\ multi_download_store' = Put(multi_download_store, MultiId, r.entry)
              /\ lastCall' = [NoCall EXCEPT !.op = "complete_file",
                                            !.index = file_index, !.name = file_name,
                                            !.success = success, !.error = error]
    /\ calls' = calls + 1
    /\ UNCHANGED <<multi_pc, multi_result, singleVars, response, streamVars, poolVars, runnerVars>>

TrackerNext ==
    \/ CallUpdateOverall
    \/ CallUpdateCurrentFile
    \/ CallCompleteFile

SpecTracker == TrackerInit /\ [][TrackerNext]_vars

-----------------------------------------------------------------------------
(* The single job: POST /download-with-progress, its background task and the
   YouTube runner (download.py, download_service.py) *)

\* Mutant: the download band starts at 0.
BandBytesFromZero(downloaded, total) == (downloaded * 60) \div total

\* int((downloaded / total) * 60) + 10: the float product equals the exact
\* quotient for every total below 60.
BandBytes(downloaded, total) == ((downloaded * 60) \div total) + 10

\* min(int(percent * 0.6) + 10, 70)
BandPercent(percent) == Min(((percent * 6) \div 10) + 10, 70)

\* The dicts yt-dlp passes to the progress hook.
HookEvents ==
    {[status |-> "downloading", kind |-> "bytes", downloaded_bytes |-> d,
      total_bytes |-> HookTotalBytes, percent |-> 0] : d \in 0..HookTotalBytes}
    \cup {[status |-> "downloading", kind |-> "percent", downloaded_bytes |-> 0,
           total_bytes |-> 0, percent |-> q] : q \in {0, 50, 100}}
    \cup {[status |-> "downloading", kind |-> "bare", downloaded_bytes |-> 0,
           total_bytes |-> 0, percent |-> 0]}
    \cup {[status |-> "finished", kind |-> "bare", downloaded_bytes |-> 0,
           total_bytes |-> 0, percent |-> 0]}

\* The runner's tracker writes the snapshot.
RunnerUpdate(progress, status, message, error, filename) ==
    progress_store' = update(progress_store, SingleId, runner_cancelled,
                             progress, status, message, error, filename)

\* download_with_progress: create_progress_tracker() and create_task(...)
AcceptSingle ==
    /\ single_pc = "idle"
    /\ progress_store' = update(progress_store, SingleId, FALSE, 0, "created",
                                <<"Descarga creada">>, None, None)
    /\ single_pc' = "queued"
    /\ request' = "background"
    /\ UNCHANGED <<runner_cancelled, result_success, hooks, cancel_history,
                   response, multiVars, streamVars, poolVars, runnerVars, tool>>

\* POST /download: create_progress_tracker(), then the handler awaits
\* wait_for(run_in_executor(...), timeout=300)
AcceptSync ==
    /\ single_pc = "idle"
    /\ progress_store' = update(progress_store, SingleId, FALSE, 0, "created",
                                <<"Descarga creada">>, None, None)
    /\ single_pc' = "queued"
    /\ request' = "waiting"
    /\ UNCHANGED <<runner_cancelled, result_success, hooks, cancel_history,
                   response, multiVars, streamVars, poolVars, runnerVars, tool>>

\* The worker pool starts download_wrapper with the job's ProgressTracker
\* (background_download and POST /download alike), and download_audio
\* dispatches on the platform of the URL
BackgroundStart ==
    /\ single_pc = "queued"
    /\ runner_cancelled' = FALSE
    /\ \E platform \in {"youtube", "spotify"} :
        single_pc' = IF platform = "spotify" THEN "sp_prepare" ELSE "yt_prepare"
    /\ UNCHANGED <<progress_store, result_success, hooks, request, cancel_history,
                   response, multiVars, streamVars, poolVars, runnerVars, tool>>

\* background_download, except branch: a fresh tracker writes the error
BackgroundException ==
    /\ single_pc = "queued"
    /\ request = "background"
    /\ progress_store' = update(progress_store, SingleId, FALSE, 0, "error",
                                <<"Error", "err">>, "err", None)
    /\ single_pc' = "done"
    /\ UNCHANGED <<runner_cancelled, result_success, hooks, request, cancel_history,
                   response, multiVars, streamVars, poolVars, runnerVars, tool>>

\* download_from_youtube: update(5, "preparing"), then the cancellation check
YtPrepare ==
    /\ single_pc = "yt_prepare"
    /\ RunnerUpdate(5, "preparing", <<"Preparando descarga de YouTube...">>, None, None)
    /\ IF runner_cancelled
       THEN /\ result_success' = FALSE
            /\ single_pc' = "bg_result"
       ELSE /\ result_success' = result_success
            /\ single_pc' = "yt_extract"
    /\ UNCHANGED <<runner_cancelled, hooks, request, cancel_history, response, multiVars,
                   streamVars, poolVars, runnerVars, tool>>

\* ydl.extract_info: it returns the information, or fails and the runner
\* returns an unsuccessful result
YtExtractInfo ==
    /\ single_pc = "yt_extract"
    /\ \E ok \in BOOLEAN :
        /\ single_pc' = IF ok THEN "yt_download" ELSE "bg_result"
        /\ result_success' = FALSE
    /\ UNCHANGED <<progress_store, runner_cancelled, hooks, request, cancel_history,
                   response, multiVars, streamVars, poolVars, runnerVars, tool>>

\* progress_hook(d), called by yt-dlp during ydl.download
progress_hook(d) ==
    /\ single_pc = "yt_download"
    /\ hooks < MaxHooks
    /\ hooks' = hooks + 1
    /\ cancel_history' =
          IF cancel_history = "cancelled" /\ d.status = "downloading"
          THEN "hook_ran" ELSE cancel_history
    /\ IF d.status = "downloading" /\ runner_cancelled
       THEN \* raise Exception: ydl.download fails, the runner returns a failure
            /\ result_success' = FALSE
            /\ single_pc' = "bg_result"
            /\ UNCHANGED progress_store
       ELSE /\ UNCHANGED <<result_success, single_pc>>
            /\ IF d.status = "downloading" /\ d.kind = "bytes" /\ d.total_bytes # 0
               THEN LET percentage == BandBytes(d.downloaded_bytes, d.total_bytes)
                    IN RunnerUpdate(percentage, "downloading",
                                    <<"Descargando", percentage - 10, 60>>, None, None)
               ELSE IF d.status = "downloading" /\ d.kind = "percent"
               THEN RunnerUpdate(BandPercent(d.percent), "downloading",
                                 <<"Descargando", d.percent>>, None, None)
               ELSE IF d.status = "finished"
               THEN RunnerUpdate(70, "converting", <<"Convirtiendo a MP3...">>, None, None)
               ELSE UNCHANGED progress_store
    /\ UNCHANGED <<runner_cancelled, request, response, streamVars, poolVars, runnerVars, tool>>

YtProgressHook == \E d \in HookEvents : progress_hook(d) /\ UNCHANGED multiVars

\* ydl.download returns, or raises and the runner returns a failure
YtDownloadReturn ==
    /\ single_pc = "yt_download"
    /\ \E ok \in BOOLEAN :
        /\ single_pc' = IF ok THEN "yt_finalize" ELSE "bg_result"
        /\ result_success' = FALSE
    /\ UNCHANGED <<progress_store, runner_cancelled, hooks, request, cancel_history,
                   response, multiVars, streamVars, poolVars, runnerVars, tool>>

\* update(85, "finalizing"), then the search for the downloaded file
YtFinalize ==
    /\ single_pc = "yt_finalize"
    /\ RunnerUpdate(85, "finalizing", <<"Finalizando descarga...">>, None, None)
    /\ \E found \in BOOLEAN :
        /\ single_pc' = IF found THEN "yt_complete" ELSE "bg_result"
        /\ result_success' = FALSE
    /\ UNCHANGED <<runner_cancelled, hooks, request, cancel_history, response, multiVars,
                   streamVars, poolVars, runnerVars, tool>>

\* update(100, "completed", ..., None, filename) and the successful result
YtComplete ==
    /\ single_pc = "yt_complete"
    /\ RunnerUpdate(100, "completed", <<"Descarga completada", "file.mp3">>, None, "file.mp3")
    /\ result_success' = TRUE
    /\ single_pc' = "bg_result"
    /\ UNCHANGED <<runner_cancelled, hooks, request, cancel_history, response, multiVars,
                   streamVars, poolVars, runnerVars, tool>>

\* download_from_spotify: update(5, "preparing")
SpPrepare ==
    /\ single_pc = "sp_prepare"
    /\ RunnerUpdate(5, "preparing", <<"Preparando descarga de Spotify...">>, None, None)
    /\ single_pc' = "sp_initialize"
    /\ UNCHANGED <<runner_cancelled, result_success, hooks, request, cancel_history, response,
                   multiVars, streamVars, poolVars, runnerVars, tool>>

\* SpotifyDownloader.download: update(10, "initializing"), then
\* _check_spotdl_available runs `spotdl --version`
SpInitialize ==
    /\ single_pc = "sp_initialize"
    /\ RunnerUpdate(10, "initializing", <<"Iniciando descarga con spotdl...">>, None, None)
    /\ \E available \in BOOLEAN :
        /\ single_pc' = IF available THEN "sp_processing" ELSE "bg_result"
        /\ result_success' = FALSE
        /\ tool' = [attempts |-> tool.attempts + 1, missing |-> ~available]
    /\ UNCHANGED <<runner_cancelled, hooks, request, cancel_history, response, multiVars,
                   streamVars, poolVars, runnerVars>>

\* SpotifyDownloader.download: update(20, "processing"), then _get_track_info
\* runs `spotdl save`
SpProcessing ==
    /\ single_pc = "sp_processing"
    /\ RunnerUpdate(20, "processing", <<"Procesando URL de Spotify...">>, None, None)
    /\ \E track_info \in BOOLEAN :
        /\ single_pc' = IF track_info THEN "sp_start" ELSE "bg_result"
        /\ result_success' = FALSE
    /\ tool' = [tool EXCEPT !.attempts = @ + 1]
    /\ UNCHANGED <<runner_cancelled, hooks, request, cancel_history, response, multiVars,
                   streamVars, poolVars, runnerVars>>

\* _download_with_spotdl: update(30, "downloading"), then subprocess.Popen,
\* which starts the tool or raises
SpStart ==
    /\ single_pc = "sp_start"
    /\ RunnerUpdate(30, "downloading", <<"Descargando con spotdl...">>, None, None)
    /\ \E started \in BOOLEAN :
        /\ single_pc' = IF started THEN "sp_download" ELSE "sp_except"
        /\ tool' = [attempts |-> tool.attempts + 1, missing |-> ~started]
    /\ UNCHANGED <<runner_cancelled, result_success, hooks, request, cancel_history, response,
                   multiVars, streamVars, poolVars, runnerVars>>

\* _download_with_spotdl, except branch: update(0, "error", message), failure
SpExcept ==
    /\ single_pc = "sp_except"
    /\ RunnerUpdate(0, "error", <<"Error", "err">>, None, None)
    /\ result_success' = FALSE
    /\ single_pc' = "bg_result"
    /\ UNCHANGED <<runner_cancelled, hooks, request, cancel_history, response, multiVars,
                   streamVars, poolVars, runnerVars, tool>>

\* 30 + int(percentage * 0.6): the float product equals the exact one for
\* every percentage in 0..100.
SpotdlBand(percentage) == 30 + ((percentage * 6) \div 10)

\* _download_with_spotdl: a line of the tool's output carrying a percentage
SpOutputLine ==
    /\ single_pc = "sp_download"
    /\ hooks < MaxHooks
    /\ hooks' = hooks + 1
    /\ \E percentage \in {0, 50, 100} :
        RunnerUpdate(SpotdlBand(percentage), "downloading",
                     <<"Descargando", percentage>>, None, None)
    /\ UNCHANGED <<single_pc, runner_cancelled, result_success, request,
                   cancel_history, response, multiVars, streamVars, poolVars, runnerVars, tool>>

\* _download_with_spotdl: the tool exits, with return code 0 or not
SpProcessExit ==
    /\ single_pc = "sp_download"
    /\ \E return_code \in {0, 1} :
        /\ single_pc' = IF return_code = 0 THEN "sp_file" ELSE "bg_result"
        /\ result_success' = FALSE
    /\ UNCHANGED <<progress_store, runner_cancelled, hooks, request, cancel_history,
                   response, multiVars, streamVars, poolVars, runnerVars, tool>>

\* _download_with_spotdl: update(95, "processing"), then the search for the
\* file and its move, which may raise
SpFile ==
    /\ single_pc = "sp_file"
    /\ RunnerUpdate(95, "processing", <<"Procesando archivo descargado...">>, None, None)
    /\ \E outcome \in {"found", "missing", "raise"} :
        /\ single_pc' = IF outcome = "found" THEN "sp_complete"
                        ELSE IF outcome = "missing" THEN "bg_result" ELSE "sp_except"
        /\ result_success' = FALSE
    /\ UNCHANGED <<runner_cancelled, hooks, request, cancel_history, response, multiVars,
                   streamVars, poolVars, runnerVars, tool>>

\* _download_with_spotdl: update(100, "completed", message) and the result
SpComplete ==
    /\ single_pc = "sp_complete"
    /\ RunnerUpdate(100, "completed", <<"Descarga completada", "file.mp3">>, None, None)
    /\ result_success' = TRUE
    /\ single_pc' = "bg_result"
    /\ UNCHANGED <<runner_cancelled, hooks, request, cancel_history, response, multiVars,
                   streamVars, poolVars, runnerVars, tool>>

\* background_download after the executor returns
BackgroundResult ==
    /\ single_pc = "bg_result"
    /\ request = "background"
    /\ IF ~result_success
       THEN RunnerUpdate(0, "error", <<"Error", "err">>, "err", None)
       ELSE UNCHANGED progress_store
    /\ single_pc' = "done"
    /\ UNCHANGED <<runner_cancelled, result_success, hooks, request, cancel_history,
                   response, multiVars, streamVars, poolVars, runnerVars, tool>>

\* POST /download, wait_for raises TimeoutError: HTTP 408 and no registry
\* write; a wrapper still waiting for a worker is cancelled, a running one
\* keeps running in its thread
SyncTimeout ==
    /\ request = "waiting"
    /\ single_pc \notin {"idle", "done"}
    /\ request' = "timed_out"
    /\ response' = "408"
    /\ single_pc' = IF single_pc = "queued" THEN "done" ELSE single_pc
    /\ UNCHANGED <<progress_store, runner_cancelled, result_success, hooks,
                   cancel_history, multiVars, streamVars, poolVars, runnerVars, tool>>

\* POST /download, the dispatch raises: HTTP 500 and no registry write
SyncException ==
    /\ single_pc = "queued"
    /\ request = "waiting"
    /\ request' = "returned"
    /\ response' = "500"
    /\ single_pc' = "done"
    /\ UNCHANGED <<progress_store, runner_cancelled, result_success, hooks,
                   cancel_history, multiVars, streamVars, poolVars, runnerVars, tool>>

\* POST /download, the wrapper returns: DownloadResponse or HTTP 500, no
\* registry write; after the timeout nobody receives the result
SyncResult ==
    /\ single_pc = "bg_result"
    /\ request \in {"waiting", "timed_out"}
    /\ IF request = "waiting"
       THEN /\ request' = "returned"
            /\ response' = IF result_success THEN "200" ELSE "500"
       ELSE UNCHANGED <<request, response>>
    /\ single_pc' = "done"
    /\ UNCHANGED <<progress_store, runner_cancelled, result_success, hooks,
                   cancel_history, multiVars, streamVars, poolVars, runnerVars, tool>>

\* What ProgressTracker.cancel() stores: update(0, "cancelled", ...) with
\* _cancelled set; the route does not call it.
CancelledByTracker(entry) ==
    Entry(0, "cancelled", <<"Descarga cancelada">>, "Operacion cancelada por el usuario", None, TRUE)

\* cancel_download: the three keys the route assigns in the stored dict
MarkedCancelled(entry) ==
    [entry EXCEPT !.status = "cancelled",
                  !.message = <<"Descarga cancelada">>,
                  !.cancelled = TRUE]

\* POST /cancel/{download_id}: the route looks the id up in progress_store,
\* the single-job registry, whatever kind of job the id belongs to
cancel_download(download_id) ==
    /\ IF download_id \in DOMAIN progress_store
       THEN /\ progress_store' =
                  [progress_store EXCEPT ![download_id] = MarkedCancelled(@)]
            /\ response' = "cancel_200"
            /\ cancel_history' =
                  IF cancel_history = "none"
                     /\ progress_store[download_id].status = "downloading"
                     /\ single_pc = "yt_download"
                  THEN "cancelled" ELSE cancel_history
       ELSE /\ UNCHANGED <<progress_store, cancel_history>>
            /\ response' = "cancel_404"
    /\ UNCHANGED <<single_pc, runner_cancelled, result_success, hooks, request,
                   multiVars, streamVars, poolVars, runnerVars, tool>>

CancelDownload == single_pc # "idle" /\ cancel_download(SingleId)

\* POST /cancel/{download_id} with the id of a playlist job
CancelMultiDownload == multi_pc # "idle" /\ cancel_download(MultiId)

\* DELETE /progress/{download_id}
cleanup_progress(download_id) ==
    /\ IF download_id \in DOMAIN progress_store
       THEN /\ progress_store' = Remove(progress_store, download_id)
            /\ response' = "cleanup_200"
       ELSE /\ UNCHANGED progress_store
            /\ response' = "cleanup_404"
    /\ UNCHANGED <<single_pc, runner_cancelled, result_success, hooks, request,
                   cancel_history, multiVars, streamVars, poolVars, runnerVars, tool>>

CleanupProgress == single_pc # "idle" /\ cleanup_progress(SingleId)

SingleJobNext ==
    \/ AcceptSingle
    \/ BackgroundStart
    \/ BackgroundException
    \/ YtPrepare
    \/ YtExtractInfo
    \/ YtProgressHook
    \/ YtDownloadReturn
    \/ YtFinalize
    \/ YtComplete
    \/ SpPrepare
    \/ SpInitialize
    \/ SpProcessing
    \/ SpStart
    \/ SpExcept
    \/ SpOutputLine
    \/ SpProcessExit
    \/ SpFile
    \/ SpComplete
    \/ BackgroundResult
    \/ CancelDownload
    \/ CleanupProgress

-----------------------------------------------------------------------------
(* GET /progress-stream/{download_id}: generate_progress_stream *)

EventOf(status, progress) == [status |-> status, progress |-> progress, synthetic |-> FALSE]

SyntheticEvent(status, progress) ==
    [status |-> status, progress |-> progress, synthetic |-> TRUE]

\* yield: the event is appended to what the client has received
Emit(ev, e) ==
    [last |-> e, prev |-> ev.last,
     terminal |-> IF ~e.synthetic /\ e.status \in TerminalStatuses
                  THEN ev.terminal \cup {e.status} ELSE ev.terminal,
     completed |-> IF e.status = "completed" THEN ev.completed + 1 ELSE ev.completed]

StreamStartSingle ==
    /\ stream.pc = "idle"
    /\ single_pc # "idle"
    /\ stream' = [IdleStream EXCEPT !.kind = "single", !.pc = "poll"]
    /\ UNCHANGED <<events, singleVars, response, multiVars, poolVars,
                   runnerVars>>

\* The event yielded after the loop: {'progress': 100, 'status': 'stream_ended'}
StreamEnded == SyntheticEvent("stream_ended", 100)

\* Mutant: a missing entry is reported as an error.
MissingEntryEventAsError == SyntheticEvent("error", 0)

\* The event yielded when the entry is missing: {'progress': 100, 'status': 'completed'}
MissingEntryEvent == SyntheticEvent("completed", 100)

\* One pass of the while loop of generate_progress_stream
single_poll ==
    /\ stream.kind = "single"
    /\ stream.pc = "poll"
    /\ stream.iteration < max_iterations_single
    /\ IF SingleId \notin DOMAIN progress_store
       THEN /\ events' = Emit(Emit(events, MissingEntryEvent), StreamEnded)
            /\ stream' = [stream EXCEPT !.pc = "ended", !.observed = "absent",
                                     !.sent = FALSE]
            /\ UNCHANGED progress_store
       ELSE LET progress_data == progress_store[SingleId]
                current_progress == progress_data.progress
                send == current_progress # stream.last_progress \/ stream.iteration = 0
                ev1 == IF send
                       THEN Emit(events, EventOf(progress_data.status, current_progress))
                       ELSE events
                last1 == IF send THEN current_progress ELSE stream.last_progress
            IN IF progress_data.status \in {"completed", "success"}
               THEN /\ progress_store' =
                          [progress_store EXCEPT ![SingleId] =
                              [@ EXCEPT !.download_url = "/api/v1/download-zip/s1",
                                        !.ready_for_download = TRUE]]
                    /\ events' = Emit(Emit(ev1, EventOf(progress_data.status,
                                                        current_progress)), StreamEnded)
                    /\ stream' = [stream EXCEPT !.pc = "ended", !.last_progress = last1,
                                                !.observed = progress_data.status,
                                                !.sent = send]
               ELSE IF progress_data.status \in {"error", "failed"}
               THEN /\ events' = Emit(ev1, StreamEnded)
                    /\ stream' = [stream EXCEPT !.pc = "ended", !.last_progress = last1,
                                                !.observed = progress_data.status,
                                                !.sent = send]
                    /\ UNCHANGED progress_store
               ELSE /\ events' = ev1
                    /\ stream' = [stream EXCEPT !.iteration = @ + 1,
                                                !.last_progress = last1,
                                                !.observed = progress_data.status,
                                                !.sent = send]
                    /\ UNCHANGED progress_store
    /\ UNCHANGED <<single_pc, runner_cancelled, result_success, hooks, request, tool,
                   cancel_history, response, multiVars, poolVars,
                   runnerVars>>

SinglePoll == single_poll

\* The loop ends because iteration reached max_iterations
SingleBudgetEnd ==
    /\ stream.kind = "single"
    /\ stream.pc = "poll"
    /\ stream.iteration >= max_iterations_single
    /\ events' = Emit(events, StreamEnded)
    /\ stream' = [stream EXCEPT !.pc = "ended"]
    /\ UNCHANGED <<singleVars, response, multiVars, poolVars,
                   runnerVars>>

SingleStreamNext ==
    \/ StreamStartSingle
    \/ SinglePoll
    \/ SingleBudgetEnd

NoMultiJob ==
    /\ tracker = NewTracker(MultiId, 0)
    /\ multi_download_store = EmptyStore
    /\ lastCall = NoCall
    /\ calls = 0
    /\ multi_pc = "idle"
    /\ multi_result = NoResult

NoJobsInit ==
    /\ NoMultiJob
    /\ NoSingleJob
    /\ response = "none"
    /\ NoStream
    /\ NoPool
    /\ NoRunner

SingleNext ==
    \/ SingleJobNext
    \/ SingleStreamNext

SpecSingle == NoJobsInit /\ [][SingleNext]_vars

-----------------------------------------------------------------------------
(* The playlist job: POST /download-playlist for a YouTube playlist, its
   background task (download.py) and MultiMusicDownloader.download_multiple
   (playlist_service.py) *)

\* int((downloaded / total) * 100): the float product equals the exact
\* quotient for every total below 29.
FilePercent(downloaded, total) == (downloaded * 100) \div total

\* The dicts yt-dlp passes to the playlist's progress hook.
PlaylistHookEvents(total_files) ==
    {[status |-> "downloading", has_index |-> TRUE, playlist_index |-> i,
      downloaded_bytes |-> d, total_bytes |-> HookTotalBytes] :
        i \in 1..total_files, d \in 0..HookTotalBytes}
    \cup {[status |-> "finished", has_index |-> TRUE, playlist_index |-> i,
           downloaded_bytes |-> 0, total_bytes |-> 0] : i \in 1..total_files}
    \cup {[status |-> "downloading", has_index |-> FALSE, playlist_index |-> 0,
           downloaded_bytes |-> 0, total_bytes |-> 0]}

\* info["total_tracks"] of the playlists submitted: empty, a single track,
\* several tracks.
PlaylistSizes == {0, 1, MaxPlaylist}

\* The files the runner collects from the download folder.
ResultFiles(n) == [i \in 1..n |-> [name |-> TrackName(i - 1), path |-> TrackName(i - 1)]]

\* A tracker method stores its snapshot; r is what the method returns here.
TrackerWrite(r) ==
    /\ tracker' = r.tracker
    /\ multi_download_store' = Put(multi_download_store, MultiId, r.entry)

\* progress_tracker.update_overall(status, message, error) on tracker t
DoUpdateOverall(t, status, message, error) ==
    /\ TrackerWrite(update_overall(t, status, message, error))
    /\ lastCall' = [NoCall EXCEPT !.op = "update_overall", !.status = status,
                                  !.error = error]

\* progress_tracker.update_current_file(file_index, track_name, progress, status)
DoUpdateCurrentFile(file_index, progress, status) ==
    /\ TrackerWrite(update_current_file(tracker, file_index, TrackName(file_index),
                                        progress, status, ""))
    /\ lastCall' = [NoCall EXCEPT !.op = "update_current_file", !.index = file_index,
                                  !.name = TrackName(file_index),
                                  !.progress = progress, !.status = status]

\* progress_tracker.complete_file(file_index, track_name, success, error)
DoCompleteFile(file_index, success, error) ==
    /\ TrackerWrite(complete_file(tracker, file_index, TrackName(file_index),
                                  success, error))
    /\ lastCall' = [NoCall EXCEPT !.op = "complete_file", !.index = file_index,
                                  !.name = TrackName(file_index),
                                  !.success = success, !.error = error]

\* download_playlist_with_progress without its test `if total_files == 0`
EmptyPlaylistUnchecked(total_files) == FALSE

\* download_playlist_with_progress: if total_files == 0
EmptyPlaylist(total_files) == total_files = 0

\* download_playlist_with_progress: an empty playlist is refused with 400,
\* otherwise create_multi_download_tracker(total_files) and create_task(...)
AcceptPlaylist ==
    /\ multi_pc = "idle"
    /\ \E total_files \in PlaylistSizes :
        IF EmptyPlaylist(total_files)
        THEN /\ response' = "400"
             /\ UNCHANGED <<tracker, multi_download_store, multi_pc>>
        ELSE /\ TrackerWrite(update_overall(NewTracker(MultiId, total_files), "created",
                                            <<"Preparando descarga", total_files>>, None))
             /\ multi_pc' = "queued"
             /\ UNCHANGED response
    /\ UNCHANGED <<lastCall, calls, multi_result, singleVars, streamVars, poolVars, runnerVars>>

\* background_multi_download up to run_in_executor: a fresh tracker
BgMultiStart ==
    /\ multi_pc = "queued"
    /\ tracker' = NewTracker(MultiId, tracker.total_files)
    /\ multi_pc' = "dm_info"
    /\ UNCHANGED <<multi_download_store, lastCall, calls, multi_result, singleVars,
                   response, streamVars, poolVars, runnerVars>>

\* background_multi_download, except branch: a fresh tracker writes the error
BgMultiException ==
    /\ multi_pc = "queued"
    /\ DoUpdateOverall(NewTracker(MultiId, tracker.total_files), "error",
                       <<"Error", "err">>, "err")
    /\ multi_pc' = "done"
    /\ UNCHANGED <<calls, multi_result, singleVars, response, streamVars, poolVars, runnerVars>>

\* download_multiple: get_playlist_info, then the first write of the path taken;
\* an exception is caught by download_multiple, which writes the error
DmPlaylistInfo ==
    /\ multi_pc = "dm_info"
    /\ \E outcome \in {"ok", "no_info", "raise"} :
        IF outcome = "no_info"
        THEN /\ multi_result' = NoResult
             /\ multi_pc' = "bg_result"
             /\ UNCHANGED <<tracker, multi_download_store, lastCall>>
        ELSE IF outcome = "raise"
        THEN /\ DoUpdateOverall(tracker, "error", <<"Error", "err">>, "err")
             /\ multi_result' = NoResult
             /\ multi_pc' = "bg_result"
        ELSE IF tracker.total_files = 1
        THEN /\ DoUpdateOverall(tracker, "downloading", <<"Descargando track unico">>, None)
             /\ multi_pc' = "dm_single_file"
             /\ UNCHANGED multi_result
        ELSE /\ DoUpdateOverall(tracker, "starting",
                                <<"Iniciando descarga", tracker.total_files>>, None)
             /\ multi_pc' = "ym_start"
             /\ UNCHANGED multi_result
    /\ UNCHANGED <<calls, singleVars, response, streamVars, poolVars, runnerVars>>

\* download_multiple, single track: update_current_file(0, name, 0, "starting")
DmSingleFile ==
    /\ multi_pc = "dm_single_file"
    /\ DoUpdateCurrentFile(0, 0, "starting")
    /\ multi_pc' = "dm_single_download"
    /\ UNCHANGED <<calls, multi_result, singleVars, response, streamVars, poolVars, runnerVars>>

\* download_multiple, single track: download_audio returns and complete_file
DmSingleDownload ==
    /\ multi_pc = "dm_single_download"
    /\ \E success \in BOOLEAN :
        /\ DoCompleteFile(0, success, IF success THEN None ELSE "err")
        /\ multi_result' = [success |-> success,
                            files |-> IF success THEN ResultFiles(1) ELSE <<>>]
    /\ multi_pc' = "dm_single_done"
    /\ UNCHANGED <<calls, singleVars, response, streamVars, poolVars, runnerVars>>

\* download_multiple, single track: the closing update_overall and the return
DmSingleDone ==
    /\ multi_pc = "dm_single_done"
    /\ IF multi_result.success
       THEN DoUpdateOverall(tracker, "completed", <<"Descarga completada">>, None)
       ELSE DoUpdateOverall(tracker, "failed", <<"Descarga fallo">>, None)
    /\ multi_pc' = "bg_result"
    /\ UNCHANGED <<calls, multi_result, singleVars, response, streamVars, poolVars, runnerVars>>

\* _download_youtube_multiple: update_overall("downloading", ...)
YmStart ==
    /\ multi_pc = "ym_start"
    /\ DoUpdateOverall(tracker, "downloading",
                       <<"Descargando", tracker.total_files, "YouTube">>, None)
    /\ multi_pc' = "ym_download"
    /\ UNCHANGED <<calls, multi_result, singleVars, response, streamVars, poolVars, runnerVars>>

\* _download_youtube_multiple.progress_hook(d), called by yt-dlp
playlist_progress_hook(d) ==
    /\ multi_pc = "ym_download"
    /\ calls < MaxPlaylistHooks
    /\ calls' = calls + 1
    /\ IF d.status = "downloading" /\ d.has_index /\ d.total_bytes # 0
       THEN DoUpdateCurrentFile(d.playlist_index - 1,
                                FilePercent(d.downloaded_bytes, d.total_bytes),
                                "downloading")
       ELSE IF d.status = "finished" /\ d.has_index
       THEN DoCompleteFile(d.playlist_index - 1, TRUE, None)
       ELSE UNCHANGED <<tracker, multi_download_store, lastCall>>
    /\ UNCHANGED <<multi_pc, multi_result, singleVars, response, streamVars, poolVars, runnerVars>>

YmProgressHook == \E d \in PlaylistHookEvents(tracker.total_files) : playlist_progress_hook(d)

\* ydl.download returns and n files are found in the folder, or it raises
YmDownloadReturn ==
    /\ multi_pc = "ym_download"
    /\ \E raised \in BOOLEAN, n \in 0..tracker.total_files :
        IF raised
        THEN /\ n = 0
             /\ DoUpdateOverall(tracker, "error", <<"Error", "err">>, "err")
             /\ multi_result' = NoResult
        ELSE LET success == n > 0
             IN /\ IF success
                   THEN DoUpdateOverall(tracker, "completed",
                                        <<"Completado", n, tracker.total_files>>, None)
                   ELSE DoUpdateOverall(tracker, "failed",
                                        <<"No se descargo ningun archivo">>, None)
                /\ multi_result' = [success |-> success, files |-> ResultFiles(n)]
    /\ multi_pc' = "bg_result"
    /\ UNCHANGED <<calls, singleVars, response, streamVars, poolVars, runnerVars>>

\* background_multi_download after the executor returns
BgMultiResult ==
    /\ multi_pc = "bg_result"
    /\ IF ~multi_result.success
       THEN DoUpdateOverall(tracker, "error", <<"Error", "err">>, "err")
       ELSE LET r == update_overall(tracker, "completed",
                                    <<"Descarga completada exitosamente">>, None)
            IN /\ tracker' = r.tracker
               /\ multi_download_store' =
                     Put(multi_download_store, MultiId,
                         IF multi_result.files # <<>>
                         THEN [r.entry EXCEPT !.files_info = multi_result.files]
                         ELSE r.entry)
               /\ lastCall' = [NoCall EXCEPT !.op = "update_overall",
                                             !.status = "completed"]
    /\ multi_pc' = "done"
    /\ UNCHANGED <<calls, multi_result, singleVars, response, streamVars, poolVars, runnerVars>>

\* DELETE /multi-progress/{download_id}
cleanup_multi_download_progress(download_id) ==
    /\ multi_download_store' =
          IF download_id \in DOMAIN multi_download_store
          THEN Remove(multi_download_store, download_id)
          ELSE multi_download_store
    /\ response' = "multi_cleanup_200"
    /\ UNCHANGED <<tracker, lastCall, calls, multi_pc, multi_result, singleVars,
                   streamVars, poolVars, runnerVars>>

CleanupMulti == multi_pc # "idle" /\ cleanup_multi_download_progress(MultiId)

\* download_spotify_playlist_task: MultiFileProgressTracker(download_id, 10)
SpotifyEstimate == 10

\* download_playlist_with_progress for a Spotify URL: create_task(
\* download_spotify_playlist_task(...)) and the id is returned; no registry
\* entry is written by the handler
AcceptSpotifyPlaylist ==
    /\ multi_pc = "idle"
    /\ multi_pc' = "spt_queued"
    /\ UNCHANGED <<tracker, multi_download_store, lastCall, calls, multi_result, singleVars,
                   response, streamVars, poolVars, runnerVars>>

\* download_spotify_playlist_task: update_overall("initializing"), then
\* output_dir.mkdir, which may raise
SptInitialize ==
    /\ multi_pc = "spt_queued"
    /\ DoUpdateOverall(NewTracker(MultiId, SpotifyEstimate), "initializing",
                       <<"Iniciando descarga de Spotify...">>, None)
    /\ \E made \in BOOLEAN :
        multi_pc' = IF made THEN "spt_downloading" ELSE "spt_except"
    /\ UNCHANGED <<calls, multi_result, singleVars, response, streamVars, poolVars, runnerVars>>

\* download_spotify_playlist_task: update_overall("downloading")
SptDownloading ==
    /\ multi_pc = "spt_downloading"
    /\ DoUpdateOverall(tracker, "downloading", <<"Descargando con spotdl...">>, None)
    /\ multi_pc' = "spt_run"
    /\ UNCHANGED <<calls, multi_result, singleVars, response, streamVars, poolVars, runnerVars>>

\* download_spotify_playlist_task: run_spotdl runs the tool once with
\* subprocess.run and returns its result, or None when it raised (tool missing,
\* not startable, timeout); then the write that the result selects
SptRun ==
    /\ multi_pc = "spt_run"
    /\ \E result \in {"returncode_0", "failed_with_files", "failed_without_files", "None"} :
        /\ tool' = [attempts |-> tool.attempts + 1, missing |-> result = "None"]
        /\ IF result = "returncode_0"
           THEN DoUpdateOverall(tracker, "completed",
                                <<"Descarga completada exitosamente">>, None)
           ELSE IF result = "failed_with_files"
           THEN DoUpdateOverall(tracker, "completed",
                                <<"Descarga parcial completada">>, None)
           ELSE IF result = "failed_without_files"
           THEN DoUpdateOverall(tracker, "error",
                                <<"No se pudo descargar ningun archivo">>, "err")
           ELSE DoUpdateOverall(tracker, "error",
                                <<"Error ejecutando spotdl - sin respuesta">>, "err")
    /\ multi_pc' = "done"
    /\ UNCHANGED <<calls, multi_result, progress_store, single_pc, runner_cancelled,
                   result_success, hooks, request, cancel_history, response, streamVars, poolVars, runnerVars>>

\* download_spotify_playlist_task, except branch: MultiFileProgressTracker(
\* download_id, 1) writes the error
SptException ==
    /\ multi_pc = "spt_except"
    /\ DoUpdateOverall(NewTracker(MultiId, 1), "error", <<"Error", "err">>, "err")
    /\ multi_pc' = "done"
    /\ UNCHANGED <<calls, multi_result, singleVars, response, streamVars, poolVars, runnerVars>>

MultiJobNext ==
    \/ AcceptPlaylist
    \/ BgMultiStart
    \/ BgMultiException
    \/ DmPlaylistInfo
    \/ DmSingleFile
    \/ DmSingleDownload
    \/ DmSingleDone
    \/ YmStart
    \/ YmProgressHook
    \/ YmDownloadReturn
    \/ BgMultiResult
    \/ CleanupMulti
    \/ AcceptSpotifyPlaylist
    \/ SptInitialize
    \/ SptDownloading
    \/ SptRun
    \/ SptException

-----------------------------------------------------------------------------
(* GET /multi-progress-stream/{download_id}: generate_multi_progress_stream *)

StreamStartMulti ==
    /\ stream.pc = "idle"
    /\ multi_pc # "idle"
    /\ stream' = [IdleStream EXCEPT !.kind = "multi", !.pc = "poll"]
    /\ UNCHANGED <<events, singleVars, response, multiVars, poolVars,
                   runnerVars>>

\* The event yielded when the entry is missing:
\* {'overall_progress': 100, 'overall_status': 'completed'}
MissingMultiEntryEvent == SyntheticEvent("completed", 100)

\* The event yielded after the loop ran out of iterations:
\* {'overall_progress': 0, 'overall_status': 'timeout'}
TimeoutEvent == SyntheticEvent("timeout", 0)

\* The statuses that end the multi stream
MultiStreamEndStatuses == {"completed", "success", "error", "failed", "cancelled"}

\* One pass of the while loop of generate_multi_progress_stream
multi_poll ==
    /\ stream.kind = "multi"
    /\ stream.pc = "poll"
    /\ stream.iteration < max_iterations_multi
    /\ IF MultiId \notin DOMAIN multi_download_store
       THEN /\ events' = Emit(events, MissingMultiEntryEvent)
            /\ stream' = [stream EXCEPT !.pc = "ended", !.observed = "absent",
                                     !.sent = FALSE]
       ELSE LET progress_data == multi_download_store[MultiId]
                current_progress == progress_data.overall_progress
                status == progress_data.overall_status
                send == \/ current_progress # stream.last_progress
                        \/ stream.iteration = 0
                        \/ stream.iteration % 5 = 0
                ev1 == IF send THEN Emit(events, EventOf(status, current_progress))
                       ELSE events
                last1 == IF send THEN current_progress ELSE stream.last_progress
            IN IF status \in MultiStreamEndStatuses
               THEN /\ events' = Emit(ev1, EventOf(status, current_progress))
                    /\ stream' = [stream EXCEPT !.pc = "ended", !.last_progress = last1,
                                                !.observed = status,
                                                !.sent = send]
               ELSE /\ events' = ev1
                    /\ stream' = [stream EXCEPT !.iteration = @ + 1,
                                                !.last_progress = last1,
                                                !.observed = status,
                                                !.sent = send]
    /\ UNCHANGED <<singleVars, response, multiVars, poolVars,
                   runnerVars>>

MultiPoll == multi_poll

\* The loop ends because iteration reached max_iterations: the timeout event
MultiBudgetEnd ==
    /\ stream.kind = "multi"
    /\ stream.pc = "poll"
    /\ stream.iteration >= max_iterations_multi
    /\ events' = Emit(events, TimeoutEvent)
    /\ stream' = [stream EXCEPT !.pc = "ended"]
    /\ UNCHANGED <<singleVars, response, multiVars, poolVars,
                   runnerVars>>

MultiStreamNext ==
    \/ StreamStartMulti
    \/ MultiPoll
    \/ MultiBudgetEnd

MultiNext ==
    \/ MultiJobNext
    \/ MultiStreamNext

\* One job in the system, single or playlist, and one client streaming it:
\* jobs with distinct ids share no state.
StreamNext ==
    \/ (multi_pc = "idle" /\ SingleNext)
    \/ (single_pc = "idle" /\ MultiNext)

SpecStream == NoJobsInit /\ [][StreamNext]_vars

\* The answers of the two snapshot routes, kept apart from those of the
\* other requests: the route and the HTTP status.
SnapshotResponses ==
    {"progress_200", "progress_404", "progress_500",
     "multi_progress_200", "multi_progress_404", "multi_progress_500"}

\* GET /progress/{download_id}: progress_store.get(download_id);
\* `if not progress_data: raise HTTPException(status_code=404)` is inside
\* `try:`, whose `except Exception` catches it (HTTPException is an
\* Exception) and raises HTTPException(status_code=500) in its place;
\* otherwise the snapshot is returned
get_download_progress(download_id) ==
    /\ response' = IF download_id \notin DOMAIN progress_store
                   THEN "progress_500" ELSE "progress_200"
    /\ UNCHANGED <<singleVars, multiVars, streamVars, poolVars, runnerVars>>

\* GET /multi-progress/{download_id}: the same route over multi_download_store
get_multi_download_progress(download_id) ==
    /\ response' = IF download_id \notin DOMAIN multi_download_store
                   THEN "multi_progress_500" ELSE "multi_progress_200"
    /\ UNCHANGED <<singleVars, multiVars, streamVars, poolVars, runnerVars>>

GetDownloadProgress == get_download_progress(SingleId)

GetMultiDownloadProgress == get_multi_download_progress(MultiId)

\* The snapshot reads a client may issue at any time
SnapshotReadNext ==
    \/ GetDownloadProgress
    \/ GetMultiDownloadProgress

\* GET /active-downloads: the entries whose status is not in the route's list
get_active_downloads(store) ==
    {download_id \in DOMAIN store :
        store[download_id].status \notin
            {"completed", "success", "error", "failed", "cancelled"}}

\* GET /multi-progress/list/active: list(multi_download_store.keys())
list_active_multi_downloads(store) == DOMAIN store

\* The two list routes; the response keeps whether the job's id was listed
GetActiveDownloads ==
    /\ response' = IF SingleId \in get_active_downloads(progress_store)
                   THEN "active_listed" ELSE "active_not_listed"
    /\ UNCHANGED <<singleVars, multiVars, streamVars, poolVars, runnerVars>>

ListActiveMultiDownloads ==
    /\ response' = IF MultiId \in list_active_multi_downloads(multi_download_store)
                   THEN "multi_active_listed" ELSE "multi_active_not_listed"
    /\ UNCHANGED <<singleVars, multiVars, streamVars, poolVars, runnerVars>>

ListActiveNext ==
    \/ GetActiveDownloads
    \/ ListActiveMultiDownloads

\* POST /download: the job runs while the request waits; the client learns
\* the download_id from the response.
SyncJobNext ==
    \/ AcceptSync
    \/ SyncTimeout
    \/ SyncException
    \/ SyncResult

\* The jobs alone: one job in the system, single (started by either endpoint)
\* or playlist, and the requests that cancel or clean it up.
JobsNext ==
    \/ (multi_pc = "idle" /\ SingleJobNext)
    \/ (multi_pc = "idle" /\ SyncJobNext)
    \/ (single_pc = "idle" /\ MultiJobNext)
    \/ (single_pc = "idle" /\ CancelMultiDownload)
    \/ SnapshotReadNext
    \/ ListActiveNext

SpecJobs == NoJobsInit /\ [][JobsNext]_vars

-----------------------------------------------------------------------------
(* The single YouTube job with the events passed to its progress hook kept *)

\* progress_hook(d), with d kept as the last call: status, kind of the event,
\* downloaded_bytes, total_bytes and the percentage of _percent_str
HookCall ==
    \E d \in HookEvents :
        /\ progress_hook(d)
        /\ lastCall' = [NoCall EXCEPT !.op = "progress_hook", !.status = d.status,
                                      !.name = d.kind, !.index = d.downloaded_bytes,
                                      !.progress = d.percent]
        /\ UNCHANGED <<tracker, multi_download_store, calls, multi_pc, multi_result>>

\* download_audio for a YouTube URL
YoutubeStart ==
    /\ single_pc = "queued"
    /\ runner_cancelled' = FALSE
    /\ single_pc' = "yt_prepare"
    /\ UNCHANGED <<progress_store, result_success, hooks, request, cancel_history,
                   response, multiVars, streamVars, poolVars, runnerVars, tool>>

HookNext ==
    \/ AcceptSingle
    \/ YoutubeStart
    \/ BackgroundException
    \/ YtPrepare
    \/ YtExtractInfo
    \/ HookCall
    \/ YtDownloadReturn
    \/ YtFinalize
    \/ YtComplete
    \/ BackgroundResult
    \/ CancelDownload
    \/ CleanupProgress

SpecHook == NoJobsInit /\ [][HookNext]_vars

-----------------------------------------------------------------------------
(* The methods of the two trackers and the cleanup routes, called by any
   caller on registries that may or may not hold the entry *)

\* Mutant: an absent entry is answered with the state of a new tracker.
MultiFileProgressTracker_get_progress_new(store, download_id) ==
    IF download_id \in DOMAIN store
    THEN store[download_id]
    ELSE Snapshot(NewTracker(download_id, 0), <<"Estado desconocido">>, None)

\* MultiFileProgressTracker.get_progress on the tracker of download_id:
\* multi_download_store.get(self.download_id, {...default...})
MultiFileProgressTracker_get_progress(store, download_id) ==
    IF download_id \in DOMAIN store
    THEN store[download_id]
    ELSE [download_id |-> download_id,
          total_files |-> 0,
          completed_files |-> 0,
          failed_files |-> 0,
          current_file_index |-> 0,
          current_file_progress |-> 0,
          current_file_name |-> "",
          current_file_status |-> "unknown",
          overall_progress |-> 0,
          overall_status |-> "unknown",
          message |-> <<"Estado desconocido">>,
          error |-> None,
          files_info |-> <<>>]

\* ProgressTracker.get_progress: progress_store.get(self.download_id, {...})
ProgressTracker_get_progress(store, download_id) ==
    IF download_id \in DOMAIN store
    THEN store[download_id]
    ELSE [progress |-> 0, status |-> "unknown", message |-> <<"Estado desconocido">>,
          error |-> None]

\* Mutant: cleanup deletes nothing.
tracker_cleanup_nothing(store, download_id) == store

\* cleanup of either tracker: del store[self.download_id] if it is there
tracker_cleanup(store, download_id) ==
    IF download_id \in DOMAIN store THEN Remove(store, download_id) ELSE store

\* The arguments callers pass to ProgressTracker.update: progress, status,
\* message, error, filename; the progress values include two outside 0..100.
UpdateArguments ==
    {<<-1, "downloading", <<"Descargando">>, None, None>>,
     <<0, "error", <<"Error", "err">>, "err", None>>,
     <<50, "downloading", <<"Descargando">>, None, None>>,
     <<100, "completed", <<"Descarga completada", "file.mp3">>, None, "file.mp3">>,
     <<101, "downloading", <<"Descargando">>, None, None>>}

\* create_multi_download_tracker(total_files)
CallCreateMulti ==
    /\ calls < MaxCalls
    /\ \E total_files \in TotalFilesChoices :
        /\ TrackerWrite(update_overall(NewTracker(MultiId, total_files), "created",
                                       <<"Preparando descarga", total_files>>, None))
        /\ lastCall' = [NoCall EXCEPT !.op = "create_multi_download_tracker",
                                      !.status = "created"]
    /\ calls' = calls + 1
    /\ UNCHANGED <<multi_pc, multi_result, singleVars, response, streamVars, poolVars, runnerVars>>

\* MultiFileProgressTracker(MultiId, ...).get_progress(); the caller receives
\* the snapshot, whose overall_status is kept as the response
CallMultiGetProgress ==
    /\ calls < MaxCalls
    /\ response' = MultiFileProgressTracker_get_progress(multi_download_store,
                                                         MultiId).overall_status
    /\ lastCall' = [NoCall EXCEPT !.op = "multi_get_progress"]
    /\ calls' = calls + 1
    /\ UNCHANGED <<tracker, multi_download_store, multi_pc, multi_result, singleVars,
                   streamVars, poolVars, runnerVars>>

\* MultiFileProgressTracker(MultiId, ...).cleanup()
CallMultiCleanup ==
    /\ calls < MaxCalls
    /\ multi_download_store' = tracker_cleanup(multi_download_store, MultiId)
    /\ lastCall' = [NoCall EXCEPT !.op = "multi_cleanup"]
    /\ calls' = calls + 1
    /\ UNCHANGED <<tracker, multi_pc, multi_result, singleVars, response, streamVars, poolVars, runnerVars>>

\* ProgressTracker(SingleId).update(progress, status, message, error, filename)
CallUpdate ==
    /\ calls < MaxCalls
    /\ \E a \in UpdateArguments :
        /\ progress_store' = update(progress_store, SingleId, runner_cancelled,
                                    a[1], a[2], a[3], a[4], a[5])
        /\ lastCall' = [NoCall EXCEPT !.op = "update", !.progress = a[1],
                                      !.status = a[2], !.message = a[3],
                                      !.error = a[4], !.filename = a[5]]
    /\ calls' = calls + 1
    /\ UNCHANGED <<tracker, multi_download_store, multi_pc, multi_result, single_pc,
                   runner_cancelled, result_success, hooks, request, tool,
                   cancel_history, response, streamVars, poolVars, runnerVars>>

\* ProgressTracker(SingleId).get_progress(); the status of the snapshot
\* received is kept as the response
CallGetProgress ==
    /\ calls < MaxCalls
    /\ response' = ProgressTracker_get_progress(progress_store, SingleId).status
    /\ lastCall' = [NoCall EXCEPT !.op = "get_progress"]
    /\ calls' = calls + 1
    /\ UNCHANGED <<tracker, multi_download_store, multi_pc, multi_result, singleVars,
                   streamVars, poolVars, runnerVars>>

\* ProgressTracker(SingleId).cleanup()
CallCleanup ==
    /\ calls < MaxCalls
    /\ progress_store' = tracker_cleanup(progress_store, SingleId)
    /\ lastCall' = [NoCall EXCEPT !.op = "cleanup"]
    /\ calls' = calls + 1
    /\ UNCHANGED <<tracker, multi_download_store, multi_pc, multi_result, single_pc,
                   runner_cancelled, result_success, hooks, request, tool,
                   cancel_history, response, streamVars, poolVars, runnerVars>>

\* Mutant: cancel writes the snapshot and leaves the flag unset.
ProgressTracker_cancel_unflagged(store, download_id) ==
    [cancelled |-> FALSE,
     store |-> update(store, download_id, FALSE, 0, "cancelled", <<"Descarga cancelada">>,
                      "Operacion cancelada por el usuario", None)]

\* ProgressTracker.cancel: self._cancelled = True, then update(0, "cancelled",
\* ...); the tracker's flag and the registry after the call
ProgressTracker_cancel(store, download_id) ==
    [cancelled |-> TRUE,
     store |-> update(store, download_id, TRUE, 0, "cancelled", <<"Descarga cancelada">>,
                      "Operacion cancelada por el usuario", None)]

\* ProgressTracker(SingleId).cancel() on the instance the caller holds
CallCancel ==
    /\ calls < MaxCalls
    /\ LET r == ProgressTracker_cancel(progress_store, SingleId)
       IN /\ runner_cancelled' = r.cancelled
          /\ progress_store' = r.store
    /\ lastCall' = [NoCall EXCEPT !.op = "cancel"]
    /\ calls' = calls + 1
    /\ UNCHANGED <<tracker, multi_download_store, multi_pc, multi_result, single_pc,
                   result_success, hooks, request, tool, cancel_history, response,
                   streamVars, poolVars, runnerVars>>

\* ProgressTracker(SingleId).is_cancelled() on that instance; the value
\* returned is kept as the response
CallIsCancelled ==
    /\ calls < MaxCalls
    /\ response' = IF runner_cancelled THEN "is_cancelled_True" ELSE "is_cancelled_False"
    /\ lastCall' = [NoCall EXCEPT !.op = "is_cancelled"]
    /\ calls' = calls + 1
    /\ UNCHANGED <<tracker, multi_download_store, multi_pc, multi_result, singleVars,
                   streamVars, poolVars, runnerVars>>

\* DELETE /progress/{download_id} and DELETE /multi-progress/{download_id},
\* whether or not the id has an entry
DeleteProgress == cleanup_progress(SingleId)

DeleteMultiProgress == cleanup_multi_download_progress(MultiId)

MethodsNext ==
    \/ CallCreateMulti
    \/ CallMultiGetProgress
    \/ CallMultiCleanup
    \/ CallUpdate
    \/ CallGetProgress
    \/ CallCleanup
    \/ CallCancel
    \/ CallIsCancelled
    \/ DeleteProgress
    \/ DeleteMultiProgress

SpecMethods == NoJobsInit /\ [][MethodsNext]_vars

-----------------------------------------------------------------------------
(* Claims about the multi-file tracker, checked under SpecTracker *)

\* C1: after every tracker write the stored overall_progress is
\* min(100, floor(completed_files*100/total_files + current_file_progress/total_files))
\* when total_files > 0, and 0 when total_files = 0.
C1_OverallProgressFormula ==
    \A id \in DOMAIN multi_download_store :
        LET e == multi_download_store[id]
        IN e.overall_progress =
              IF e.total_files > 0
              THEN Min(100, (e.completed_files * 100 + e.current_file_progress)
                            \div e.total_files)
              ELSE 0

\* total_files = 4, two successful complete_file calls, then
\* update_current_file(2, _, 50, "downloading"): overall_progress is 62.
C1_Witness ==
    /\ lastCall.op = "update_current_file"
    /\ lastCall.index = 2
    /\ lastCall.progress = 50
    /\ multi_download_store[MultiId].total_files = 4
    /\ multi_download_store[MultiId].completed_files = 2
    /\ multi_download_store[MultiId].failed_files = 0
    /\ multi_download_store[MultiId].overall_progress = 62

\* C2: from one update_current_file or complete_file write to the next, the
\* overall_progress stored for the job never decreases.
C2_OverallNeverDecreases ==
    [][lastCall'.op \in {"update_current_file", "complete_file"}
       => multi_download_store'[MultiId].overall_progress
          >= multi_download_store[MultiId].overall_progress]_vars

\* C3: every overall_progress written to the registry lies in 0..100.
C3_OverallProgressInRange ==
    \A id \in DOMAIN multi_download_store :
        multi_download_store[id].overall_progress \in 0..100

\* A write whose unclamped value exceeds 100: every file completed and the
\* last file's progress still counted.
C3_Witness ==
    /\ lastCall.op \in {"update_current_file", "complete_file"}
    /\ tracker.total_files > 0
    /\ tracker.completed_files * 100 + tracker.current_file_progress
          > 100 * tracker.total_files
    /\ multi_download_store[MultiId].overall_progress = 100

\* C4: completed_files + failed_files <= total_files in every registry
\* snapshot, for complete_file calls with valid indices, repeated indices included.
C4_CountersWithinTotal ==
    \A id \in DOMAIN multi_download_store :
        multi_download_store[id].completed_files + multi_download_store[id].failed_files
            <= multi_download_store[id].total_files

\* C5: complete_file(i, name, success, error) adds 1 to completed_files
\* (success) or to failed_files (failure), leaves the other counter unchanged,
\* and sets an existing entry i to completed/100 or failed/0 with the error.
C5_CompleteFileEffect ==
    [][lastCall'.op = "complete_file" =>
        LET i == lastCall'.index
            ok == lastCall'.success
        IN /\ tracker'.completed_files = tracker.completed_files + (IF ok THEN 1 ELSE 0)
           /\ tracker'.failed_files = tracker.failed_files + (IF ok THEN 0 ELSE 1)
           /\ multi_download_store'[MultiId].completed_files = tracker'.completed_files
           /\ multi_download_store'[MultiId].failed_files = tracker'.failed_files
           /\ i < Len(tracker.files_info) =>
                 /\ tracker'.files_info[i + 1].status = (IF ok THEN "completed" ELSE "failed")
                 /\ tracker'.files_info[i + 1].progress = (IF ok THEN 100 ELSE 0)
                 /\ tracker'.files_info[i + 1].error = lastCall'.error
                 /\ multi_download_store'[MultiId].files_info = tracker'.files_info]_vars

\* A failed complete_file with an error on an entry that exists and was in progress.
C5_Witness ==
    /\ lastCall.op = "complete_file"
    /\ ~lastCall.success
    /\ lastCall.error = "err"
    /\ lastCall.index < Len(tracker.files_info)
    /\ tracker.files_info[lastCall.index + 1].status = "failed"
    /\ tracker.files_info[lastCall.index + 1].name = TrackName(lastCall.index)
    /\ tracker.failed_files = 1

-----------------------------------------------------------------------------
(* Claims about the single job, checked under SpecSingle *)

\* C6: once the registry records status cancelled for the job, no later
\* write (progress hook, completion, background error) changes that status.
C6_CancelledStaysCancelled ==
    [][(/\ SingleId \in DOMAIN progress_store
        /\ progress_store[SingleId].status = "cancelled"
        /\ SingleId \in DOMAIN progress_store')
       => progress_store'[SingleId].status = "cancelled"]_vars

\* C7: after a cancel made while the job was downloading, the next
\* progress-hook invocation finds is_cancelled() true on the runner's
\* tracker, and the finished job has status cancelled.
C7_HookObservesCancel ==
    /\ cancel_history = "hook_ran" => runner_cancelled
    /\ (/\ cancel_history = "hook_ran"
        /\ single_pc = "done"
        /\ SingleId \in DOMAIN progress_store)
       => progress_store[SingleId].status = "cancelled"

\* C8: once an entry's status is terminal, no operation changes it to a
\* different status.
C8_TerminalIsFinal ==
    [][\A id \in (DOMAIN progress_store) \cap (DOMAIN progress_store') :
          progress_store[id].status \in TerminalStatuses
          => progress_store'[id].status = progress_store[id].status]_vars


-----------------------------------------------------------------------------
(* Claims about the streamers, under SpecStream *)

\* C9, as stated: once a poll of the streamer has found the job's entry
\* missing, the stream has ended and the last event it emitted has status
\* completed.
C9_MissingEntryLastIsCompleted ==
    stream.observed = "absent" =>
        /\ stream.pc = "ended"
        /\ events.last.status = "completed"

\* C9, amended: once a poll of the streamer has found the job's entry missing,
\* the stream has ended with the synthetic completed event and nothing in
\* place of it: it is the last event of the multi-job stream, and the
\* single-job stream follows it with exactly the closing stream_ended event.
C9_MissingEntryEndsWithCompleted ==
    stream.observed = "absent" =>
        /\ stream.pc = "ended"
        /\ IF stream.kind = "multi"
           THEN /\ events.last.status = "completed"
                /\ events.last.synthetic
           ELSE /\ events.last.status = "stream_ended"
                /\ events.prev.status = "completed"
                /\ events.prev.synthetic

\* The single-job stream polled an existing entry, the entry was deleted, and
\* the next poll ended the stream.
C9_Witness ==
    /\ stream.kind = "single"
    /\ stream.observed = "absent"
    /\ stream.iteration > 0
    /\ events.prev = SyntheticEvent("completed", 100)
    /\ events.last.status = "stream_ended"

\* C10: when the status the streamer read on its latest poll is terminal, the
\* stream has stopped polling and a snapshot carrying that status is among
\* the events it emitted.
C10_TerminalSnapshotEmitted ==
    stream.observed \in TerminalStatuses =>
        /\ stream.pc = "ended"
        /\ stream.observed \in events.terminal


\* C11: when the stream of a single job has read the job's completed entry
\* and ended, the client has received exactly one event with status
\* completed.
C11_ExactlyOneCompleted ==
    (stream.kind = "single" /\ stream.pc = "ended" /\ stream.observed = "completed")
        => events.completed = 1


-----------------------------------------------------------------------------
(* Claims about the single job's progress, under SpecSingle *)

\* C12: a write that finds the single job's entry with a non-terminal status
\* and does not record an error or a cancellation leaves progress at least as
\* high as it was.
C12_ProgressNonDecreasing ==
    [][(/\ SingleId \in DOMAIN progress_store
        /\ SingleId \in DOMAIN progress_store'
        /\ progress_store[SingleId].status \notin TerminalStatuses
        /\ progress_store'[SingleId].status \notin {"error", "cancelled"})
       => progress_store'[SingleId].progress >= progress_store[SingleId].progress]_vars


-----------------------------------------------------------------------------
(* Claims about the streamers' emission rule and budget, under SpecStream *)

\* The entry the stream polls, when it exists
StreamedEntryExists ==
    IF stream.kind = "single" THEN SingleId \in DOMAIN progress_store
    ELSE MultiId \in DOMAIN multi_download_store

StreamedStatus ==
    IF stream.kind = "single" THEN progress_store[SingleId].status
    ELSE multi_download_store[MultiId].overall_status

StreamedProgress ==
    IF stream.kind = "single" THEN progress_store[SingleId].progress
    ELSE multi_download_store[MultiId].overall_progress

\* C13: a poll that finds the entry with a non-terminal status and goes on to
\* the next iteration has yielded the snapshot exactly when it was the first
\* poll, the progress differed from the last emitted one, or the poll index
\* was a multiple of 5.
C13_EmissionRule ==
    [][(/\ stream.pc = "poll"
        /\ stream'.iteration = stream.iteration + 1
        /\ StreamedEntryExists
        /\ StreamedStatus \notin TerminalStatuses)
       => (stream'.sent <=> \/ stream.iteration = 0
                            \/ StreamedProgress # stream.last_progress
                            \/ stream.iteration % 5 = 0)]_vars


\* C14: a stream that ended because its polls used up the iteration budget
\* (the entry was present and non-terminal at each of them) has the synthetic
\* timeout event as its last event.
C14_BudgetEndsWithTimeout ==
    (/\ stream.pc = "ended"
     /\ stream.iteration >= (IF stream.kind = "single" THEN max_iterations_single
                             ELSE max_iterations_multi))
        => (events.last.status = "timeout" /\ events.last.synthetic)


-----------------------------------------------------------------------------
(* Claims about the jobs' outcomes, under SpecJobs *)

\* C15: once the task that runs a job has exited, the job's registry entry
\* (while it exists) carries a terminal status; after a failed run of a
\* single job that status is not completed.
C15_TaskExitLeavesTerminalStatus ==
    /\ (single_pc = "done" /\ SingleId \in DOMAIN progress_store)
          => /\ progress_store[SingleId].status \in TerminalStatuses
             /\ ~result_success => progress_store[SingleId].status # "completed"
    /\ (multi_pc = "done" /\ MultiId \in DOMAIN multi_download_store)
          => multi_download_store[MultiId].overall_status \in TerminalStatuses

\* C16: when the playlist job of three files has ended with two files
\* downloaded and one failed (the runner's result: success, two files), the
\* registry snapshot has completed_files = 2, failed_files = 1 and
\* overall_status completed.
C16_PartialFailureSnapshot ==
    (/\ multi_pc = "done"
     /\ MultiId \in DOMAIN multi_download_store
     /\ tracker.total_files = 3
     /\ multi_result.success
     /\ Len(multi_result.files) = 2)
        => /\ multi_download_store[MultiId].completed_files = 2
           /\ multi_download_store[MultiId].failed_files = 1
           /\ multi_download_store[MultiId].overall_status = "completed"

C18_ToolMissingEndsInError ==
    /\ [][tool.missing => tool'.attempts = tool.attempts]_vars
    /\ [][(tool'.missing /\ single_pc # "done" /\ single_pc' = "done")
             => /\ SingleId \in DOMAIN progress_store'
                /\ progress_store'[SingleId].status = "error"]_vars
    /\ [][(tool'.missing /\ multi_pc # "done" /\ multi_pc' = "done")
             => /\ MultiId \in DOMAIN multi_download_store'
                /\ multi_download_store'[MultiId].overall_status = "error"]_vars

\* C19: the step by which the deadline of POST /download expires sets the
\* job's registry entry to the status timeout and stops the runner, and from
\* then on the entry changes only by a client's cancel or cleanup.
C19_DeadlineWritesTimeout ==
    /\ [][(request = "waiting" /\ request' = "timed_out")
             => /\ SingleId \in DOMAIN progress_store'
                /\ progress_store'[SingleId].status = "timeout"
                /\ single_pc' = "done"]_vars
    /\ [][(request = "timed_out" /\ progress_store' # progress_store)
             => \/ SingleId \notin DOMAIN progress_store'
                \/ progress_store'[SingleId].status = "cancelled"]_vars

\* C20: a snapshot read, single-job or multi-job, of a job id that has no
\* registry entry is answered with 404, not with the internal error 500, and
\* no snapshot read changes a registry.
C20_UnknownIdReadIsNotFound ==
    /\ [][(response' # response /\ response' \in SnapshotResponses)
             => /\ progress_store' = progress_store
                /\ multi_download_store' = multi_download_store
                /\ (response' \in {"progress_200", "progress_404", "progress_500"}
                      /\ SingleId \notin DOMAIN progress_store)
                        => response' = "progress_404"
                /\ (response' \in {"multi_progress_200", "multi_progress_404",
                                    "multi_progress_500"}
                      /\ MultiId \notin DOMAIN multi_download_store)
                        => response' = "multi_progress_404"]_vars
    /\ [](response \notin {"progress_500", "multi_progress_500"})

\* C29: complete_file called with an index that is not smaller than the
\* length of files_info changes neither completed_files nor failed_files and
\* writes nothing to the registry.
C29_CompleteFileBeyondLengthRejected ==
    [][(/\ calls' = calls + 1
        /\ lastCall'.op = "complete_file"
        /\ lastCall'.index >= Len(tracker.files_info))
          => /\ tracker'.completed_files = tracker.completed_files
             /\ tracker'.failed_files = tracker.failed_files
             /\ multi_download_store' = multi_download_store]_vars

\* C30: update_current_file(index, name, progress, status) leaves files_info
\* with at least index + 1 entries, the new ones below index being
\* placeholders (pending, progress 0, their own position as index), entry
\* index carrying the name, status and progress given; the four
\* current_file_* fields are the arguments; completed_files, failed_files and
\* every earlier entry other than index are as before; the snapshot stored
\* carries the new files_info.
C30_UpdateCurrentFileEffect ==
    [][(calls' = calls + 1 /\ lastCall'.op = "update_current_file")
         => LET index == lastCall'.index
                before == tracker.files_info
                after == tracker'.files_info
            IN /\ Len(after) >= index + 1
               /\ Len(after) >= Len(before)
               /\ \A k \in (Len(before) + 1)..index :
                     /\ after[k].status = "pending"
                     /\ after[k].progress = 0
                     /\ after[k].index = k - 1
               /\ after[index + 1].name = lastCall'.name
               /\ after[index + 1].status = lastCall'.status
               /\ after[index + 1].progress = lastCall'.progress
               /\ tracker'.current_file_index = index
               /\ tracker'.current_file_name = lastCall'.name
               /\ tracker'.current_file_progress = lastCall'.progress
               /\ tracker'.current_file_status = lastCall'.status
               /\ tracker'.completed_files = tracker.completed_files
               /\ tracker'.failed_files = tracker.failed_files
               /\ \A k \in 1..Len(before) : k # index + 1 => after[k] = before[k]
               /\ multi_download_store'[MultiId].files_info = after]_vars

C30_Witness ==
    /\ lastCall.op = "update_current_file"
    /\ lastCall.index = 3
    /\ calls >= 2
    /\ Len(tracker.files_info) = 4
    /\ tracker.files_info[2].status = "pending"
    /\ tracker.files_info[2].index = 1
    /\ tracker.files_info[1].status # "pending"

-----------------------------------------------------------------------------
(* Claims about the registry operations, under SpecJobs *)

\* C21: a cancel request for an id that has an entry sets the entry's status
\* to cancelled and its cancelled flag, and leaves its progress and filename
\* as they were; for an id without an entry it answers 404 and changes no
\* registry.
C21_CancelMarksEntry ==
    /\ [][(response # "cancel_200" /\ response' = "cancel_200")
             => /\ SingleId \in DOMAIN progress_store
                /\ DOMAIN progress_store' = DOMAIN progress_store
                /\ progress_store'[SingleId].status = "cancelled"
                /\ progress_store'[SingleId].cancelled
                /\ progress_store'[SingleId].progress = progress_store[SingleId].progress
                /\ progress_store'[SingleId].filename = progress_store[SingleId].filename]_vars
    /\ [][(response # "cancel_404" /\ response' = "cancel_404")
             => /\ SingleId \notin DOMAIN progress_store
                /\ progress_store' = progress_store
                /\ multi_download_store' = multi_download_store]_vars

C21_Witness ==
    /\ response = "cancel_200"
    /\ SingleId \in DOMAIN progress_store
    /\ progress_store[SingleId].status = "cancelled"
    /\ progress_store[SingleId].progress = 100
    /\ progress_store[SingleId].filename # None

\* C22: a cancel request for the id of an accepted job, single or playlist,
\* whose registry entry has a non-terminal status leaves that entry with the
\* status cancelled.
C22_CancelReachesCancelled ==
    [][(response' # response /\ response' \in {"cancel_200", "cancel_404"})
         => /\ (/\ single_pc # "idle"
                /\ SingleId \in DOMAIN progress_store
                /\ progress_store[SingleId].status \notin TerminalStatuses)
                  => progress_store'[SingleId].status = "cancelled"
            /\ (/\ multi_pc # "idle"
                /\ MultiId \in DOMAIN multi_download_store
                /\ multi_download_store[MultiId].overall_status \notin TerminalStatuses)
                  => multi_download_store'[MultiId].overall_status = "cancelled"]_vars

\* C27: each list-active route lists exactly the entries of its registry
\* whose status is not terminal; in particular an entry that is completed,
\* in error or cancelled is not listed.
C27_ListActiveIsNonTerminal ==
    /\ [](get_active_downloads(progress_store) =
             {id \in DOMAIN progress_store :
                 progress_store[id].status \notin TerminalStatuses})
    /\ [](list_active_multi_downloads(multi_download_store) =
             {id \in DOMAIN multi_download_store :
                 multi_download_store[id].overall_status \notin TerminalStatuses})
    /\ [][(response' # response /\ response' = "active_listed")
             => progress_store[SingleId].status \notin TerminalStatuses]_vars
    /\ [][(response' # response /\ response' = "multi_active_listed")
             => multi_download_store[MultiId].overall_status \notin TerminalStatuses]_vars

-----------------------------------------------------------------------------
(* Claims about the trackers' methods, under SpecMethods *)

\* C23: MultiFileProgressTracker.get_progress() for an id without a registry
\* entry returns the default snapshot (overall_status unknown, overall_progress
\* 0, the three counters 0, no files) and creates no entry.
C23_GetProgressDefault ==
    /\ [](MultiId \notin DOMAIN multi_download_store
            => LET g == MultiFileProgressTracker_get_progress(multi_download_store,
                                                              MultiId)
               IN /\ g.overall_status = "unknown"
                  /\ g.overall_progress = 0
                  /\ g.total_files = 0
                  /\ g.completed_files = 0
                  /\ g.failed_files = 0
                  /\ g.files_info = <<>>)
    /\ [][(calls' = calls + 1 /\ lastCall'.op = "multi_get_progress")
             => /\ multi_download_store' = multi_download_store
                /\ MultiId \notin DOMAIN multi_download_store
                      => response' = "unknown"]_vars

C23_Witness ==
    /\ lastCall.op = "multi_get_progress"
    /\ MultiId \notin DOMAIN multi_download_store
    /\ response = "unknown"
    /\ calls > 1

\* C24: ProgressTracker.update called with a progress outside 0..100 writes
\* nothing: the registry is as it was before the call.
C24_OutOfRangeRejected ==
    [][(calls' = calls + 1 /\ lastCall'.op = "update"
        /\ lastCall'.progress \notin 0..100)
          => progress_store' = progress_store]_vars

\* C25: every status stored in a single-job registry entry, on the YouTube
\* path and on the Spotify path, is one of created, preparing, downloading,
\* converting, finalizing, completed, error, cancelled, timeout.
C25_StatusInEnumeration ==
    \A id \in DOMAIN progress_store :
        progress_store[id].status \in
            {"created", "preparing", "downloading", "converting", "finalizing",
             "completed", "error", "cancelled", "timeout"}

\* C26: reading the entry back after ProgressTracker.update(progress, status,
\* message, error, filename) gives these five values.
C26_UpdateReadBack ==
    [][(calls' = calls + 1 /\ lastCall'.op = "update")
         => LET g == ProgressTracker_get_progress(progress_store', SingleId)
            IN /\ g.progress = lastCall'.progress
               /\ g.status = lastCall'.status
               /\ g.message = lastCall'.message
               /\ g.error = lastCall'.error
               /\ g.filename = lastCall'.filename]_vars

C26_Witness ==
    /\ lastCall.op = "get_progress"
    /\ response = "completed"
    /\ SingleId \in DOMAIN progress_store
    /\ progress_store[SingleId].filename = "file.mp3"

\* The effect of the four delete operations on the registries: afterwards the
\* id has no entry, and when it had none before, the registry is as it was;
\* so a second delete leaves what the first one left.
DeleteEffect ==
    /\ [][(calls' = calls + 1 /\ lastCall'.op = "cleanup")
             => /\ SingleId \notin DOMAIN progress_store'
                /\ SingleId \notin DOMAIN progress_store
                      => progress_store' = progress_store]_vars
    /\ [][(calls' = calls + 1 /\ lastCall'.op = "multi_cleanup")
             => /\ MultiId \notin DOMAIN multi_download_store'
                /\ MultiId \notin DOMAIN multi_download_store
                      => multi_download_store' = multi_download_store]_vars
    /\ [][(response' # response /\ response' \in {"cleanup_200", "cleanup_404"})
             => /\ SingleId \notin DOMAIN progress_store'
                /\ SingleId \notin DOMAIN progress_store
                      => progress_store' = progress_store
                /\ multi_download_store' = multi_download_store]_vars
    /\ [][(response' # response /\ response' = "multi_cleanup_200")
             => /\ MultiId \notin DOMAIN multi_download_store'
                /\ MultiId \notin DOMAIN multi_download_store
                      => multi_download_store' = multi_download_store
                /\ progress_store' = progress_store]_vars
    /\ [](tracker_cleanup(tracker_cleanup(progress_store, SingleId), SingleId)
            = tracker_cleanup(progress_store, SingleId))

\* C28 as stated: deleting is idempotent, and deleting an id that has no
\* entry raises no error.
C28_DeleteRaisesNoError ==
    /\ DeleteEffect
    /\ [](response # "cleanup_404")

\* C28, amended: deleting is idempotent in its effect on the registry; for an
\* id without an entry the cleanup methods of the two trackers and DELETE
\* /multi-progress/{id} report success, and DELETE /progress/{id} answers 404.
C28_DeleteIdempotentEffect ==
    /\ DeleteEffect
    /\ [][(response' # response /\ response' \in {"cleanup_200", "cleanup_404"})
             => (response' = "cleanup_404" <=> SingleId \notin DOMAIN progress_store)]_vars

C28_Witness ==
    /\ lastCall.op = "cleanup"
    /\ calls >= 2
    /\ response = "cleanup_404"
    /\ SingleId \notin DOMAIN progress_store

\* C31: ProgressTracker.cancel() stores a snapshot with status cancelled,
\* progress 0 and cancelled = true; from then on is_cancelled() on that
\* instance returns true and every update from it stores cancelled = true.
C31_TrackerCancel ==
    /\ [][(calls' = calls + 1 /\ lastCall'.op = "cancel")
             => /\ SingleId \in DOMAIN progress_store'
                /\ progress_store'[SingleId].status = "cancelled"
                /\ progress_store'[SingleId].progress = 0
                /\ progress_store'[SingleId].cancelled
                /\ runner_cancelled']_vars
    /\ [][runner_cancelled => runner_cancelled']_vars
    /\ [][(runner_cancelled /\ calls' = calls + 1 /\ lastCall'.op = "is_cancelled")
             => response' = "is_cancelled_True"]_vars
    /\ [][(runner_cancelled /\ calls' = calls + 1 /\ lastCall'.op = "update")
             => progress_store'[SingleId].cancelled]_vars

C31_Witness ==
    /\ runner_cancelled
    /\ lastCall.op = "update"
    /\ SingleId \in DOMAIN progress_store
    /\ progress_store[SingleId].status = "completed"
    /\ progress_store[SingleId].cancelled

-----------------------------------------------------------------------------
(* MultiMusicDownloader._download_spotify_multiple: the runner that reads the
   tool's output line by line. A line is the set of the words it contains;
   the empty line is the empty set. *)

OutputLines ==
    {{}, {"Downloaded"}, {"Skipping"}, {"Downloaded", "Skipping"}, {"Processing"}}

\* Mutant: the cursor may reach total_files + 1.
WithinTotalInclusive(index, total_files) == index <= total_files

\* the test `current_file_index < total_files` of both branches
WithinTotal(index, total_files) == index < total_files

\* download_multiple has written "starting" for a playlist of two or more
\* tracks and dispatches to _download_spotify_multiple
SpotifyRunnerInit ==
    \E total_files \in 2..MaxTotalFiles :
        LET created == update_overall(NewTracker(MultiId, total_files), "created",
                                      <<"Preparando descarga", total_files>>, None)
            r == update_overall(created.tracker, "starting",
                                <<"Iniciando descarga", total_files>>, None)
        IN /\ tracker = r.tracker
           /\ multi_download_store = Put(<<>>, MultiId, r.entry)
           /\ lastCall = NoCall
           /\ calls = 0
           /\ multi_pc = "sr_start"
           /\ multi_result = NoResult
           /\ NoSingleJob
           /\ response = "none"
           /\ NoStream
           /\ NoPool
           /\ NoRunner

\* update_overall("downloading", ...), then subprocess.Popen, which may raise;
\* current_file_index = 0
SrStart ==
    /\ multi_pc = "sr_start"
    /\ DoUpdateOverall(tracker, "downloading",
                       <<"Descargando", tracker.total_files, "Spotify">>, None)
    /\ \E started \in BOOLEAN :
        multi_pc' = IF started THEN "sr_lines" ELSE "sr_except"
    /\ current_file_index' = 0
    /\ UNCHANGED <<line, calls, multi_result, singleVars, response, streamVars, poolVars>>

\* One pass of `for line in process.stdout`
spotdl_line(l) ==
    /\ line' = l
    /\ IF l # {} /\ ("Downloaded" \in l \/ "Skipping" \in l)
       THEN IF WithinTotal(current_file_index, tracker.total_files)
            THEN /\ DoCompleteFile(current_file_index, "Downloaded" \in l, None)
                 /\ current_file_index' = current_file_index + 1
            ELSE UNCHANGED <<tracker, multi_download_store, lastCall, current_file_index>>
       ELSE IF l # {} /\ WithinTotal(current_file_index, tracker.total_files)
            THEN /\ DoUpdateCurrentFile(current_file_index, 50, "downloading")
                 /\ UNCHANGED current_file_index
            ELSE UNCHANGED <<tracker, multi_download_store, lastCall, current_file_index>>

SrLine ==
    /\ multi_pc = "sr_lines"
    /\ \E l \in OutputLines : spotdl_line(l)
    /\ UNCHANGED <<multi_pc, calls, multi_result, singleVars, response, streamVars, poolVars>>

\* The output ended: process.wait(), the files are collected, and the final
\* status is written: completed when completed_files > 0, else failed
SrExit ==
    /\ multi_pc = "sr_lines"
    /\ IF tracker.completed_files > 0
       THEN DoUpdateOverall(tracker, "completed",
                            <<"Completado", tracker.completed_files, tracker.total_files>>,
                            None)
       ELSE DoUpdateOverall(tracker, "failed", <<"No se descargo ningun archivo">>, None)
    /\ multi_pc' = "done"
    /\ multi_result' = [success |-> tracker.completed_files > 0, files |-> <<>>]
    /\ UNCHANGED <<calls, singleVars, response, streamVars, poolVars, runnerVars>>

\* except Exception: update_overall("error", ...)
SrException ==
    /\ multi_pc = "sr_except"
    /\ DoUpdateOverall(tracker, "error", <<"Error", "err">>, "err")
    /\ multi_pc' = "done"
    /\ UNCHANGED <<calls, multi_result, singleVars, response, streamVars, poolVars,
                   runnerVars>>

SpotifyRunnerNext ==
    \/ SrStart
    \/ SrLine
    \/ SrExit
    \/ SrException

SpecSpotifyRunner == SpotifyRunnerInit /\ [][SpotifyRunnerNext]_vars

-----------------------------------------------------------------------------
(* Two job ids in each registry: the trackers' methods, the cancel and delete
   routes called for either id, and the streams of SingleId and MultiId *)

SingleIds == {SingleId, "s2"}

\* The arguments of the update calls made for either id.
IdUpdateArguments ==
    {<<50, "downloading", <<"Descargando">>, None, None>>,
     <<100, "completed", <<"Descarga completada", "file.mp3">>, None, "file.mp3">>}

MultiIds == {MultiId, "m2"}

\* ProgressTracker(id).update(progress, status, message, error, filename)
IdUpdate(id) ==
    /\ calls < MaxIdCalls
    /\ \E a \in IdUpdateArguments :
        progress_store' = update(progress_store, id, FALSE, a[1], a[2], a[3], a[4], a[5])
    /\ calls' = calls + 1
    /\ UNCHANGED <<tracker, multi_download_store, lastCall, multi_pc, multi_result, single_pc,
                   runner_cancelled, result_success, hooks, request, tool,
                   cancel_history, response, streamVars, poolVars, runnerVars>>

\* ProgressTracker(id).cancel()
IdCancel(id) ==
    /\ calls < MaxIdCalls
    /\ progress_store' = ProgressTracker_cancel(progress_store, id).store
    /\ calls' = calls + 1
    /\ UNCHANGED <<tracker, multi_download_store, lastCall, multi_pc, multi_result, single_pc,
                   runner_cancelled, result_success, hooks, request, tool,
                   cancel_history, response, streamVars, poolVars, runnerVars>>

\* ProgressTracker(id).cleanup()
IdCleanup(id) ==
    /\ calls < MaxIdCalls
    /\ progress_store' = tracker_cleanup(progress_store, id)
    /\ calls' = calls + 1
    /\ UNCHANGED <<tracker, multi_download_store, lastCall, multi_pc, multi_result, single_pc,
                   runner_cancelled, result_success, hooks, request, tool,
                   cancel_history, response, streamVars, poolVars, runnerVars>>

\* The MultiFileProgressTracker a caller holds for id: the instance in use
\* when it is the id's, else a new one (total_files as the caller chose)
InstanceFor(id, total_files) ==
    IF tracker.download_id = id /\ id \in DOMAIN multi_download_store
    THEN tracker ELSE NewTracker(id, total_files)

\* A method of MultiFileProgressTracker(id, ...): each stores its snapshot
\* under self.download_id
IdMultiCall(id) ==
    /\ calls < MaxIdCalls
    /\ \E total_files \in {2}, method \in {"update_overall", "update_current_file",
                                              "complete_file"} :
        LET t == InstanceFor(id, total_files)
            r == IF method = "update_overall"
                 THEN update_overall(t, "downloading", <<"downloading">>, None)
                 ELSE IF method = "update_current_file"
                 THEN update_current_file(t, 0, TrackName(0), 50, "downloading", "")
                 ELSE complete_file(t, 0, TrackName(0), TRUE, None)
        IN /\ tracker' = r.tracker
           /\ multi_download_store' = Put(multi_download_store, r.tracker.download_id, r.entry)
    /\ calls' = calls + 1
    /\ UNCHANGED <<lastCall, multi_pc, multi_result, singleVars, response, streamVars,
                   poolVars, runnerVars>>

\* MultiFileProgressTracker(id, ...).cleanup()
IdMultiCleanup(id) ==
    /\ calls < MaxIdCalls
    /\ multi_download_store' = tracker_cleanup(multi_download_store, id)
    /\ calls' = calls + 1
    /\ UNCHANGED <<tracker, lastCall, multi_pc, multi_result, singleVars, response,
                   streamVars, poolVars, runnerVars>>

\* GET /progress-stream/{SingleId} or GET /multi-progress-stream/{MultiId}
IdStreamStart ==
    /\ stream.pc = "idle"
    /\ \E kind \in {"single", "multi"} :
        stream' = [IdleStream EXCEPT !.kind = kind, !.pc = "poll"]
    /\ UNCHANGED <<events, singleVars, response, multiVars, poolVars, runnerVars>>

\* The operations of the single-job registry performed for id
SingleOperation(id) ==
    \/ IdUpdate(id)
    \/ IdCancel(id)
    \/ IdCleanup(id)
    \/ cancel_download(id)
    \/ cleanup_progress(id)

\* The operations of the multi-job registry performed for id
MultiOperation(id) ==
    \/ IdMultiCall(id)
    \/ IdMultiCleanup(id)
    \/ cancel_download(id)
    \/ cleanup_multi_download_progress(id)

\* The steps of the streamer of SingleId and of the streamer of MultiId
SingleStreamer == SinglePoll \/ SingleBudgetEnd

MultiStreamer == MultiPoll \/ MultiBudgetEnd

IdsNext ==
    \/ \E id \in SingleIds : SingleOperation(id)
    \/ \E id \in MultiIds : MultiOperation(id)
    \/ IdStreamStart
    \/ SingleStreamer
    \/ MultiStreamer

SpecIds == NoJobsInit /\ [][IdsNext]_vars

-----------------------------------------------------------------------------
(* The worker pool shared by the jobs: executor = ThreadPoolExecutor(
   max_workers=2), to which every background task hands its runner with
   loop.run_in_executor(executor, download_wrapper) *)

\* download.py:36
max_workers == 2

PoolIdNames == <<"s1", "s2", "s3", "s4", "s5">>

PoolJobs == {PoolIdNames[i] : i \in 1..MaxPoolJobs}

\* Mutant: a work item is started whatever the number of busy workers.
WorkerAlwaysFree(running) == TRUE

\* The pool starts a work item when fewer than max_workers of its threads
\* are busy.
WorkerFree(running) == Cardinality(running) < max_workers

\* download_with_progress: create_progress_tracker(), create_task(
\* background_download()), and the id is returned
PoolAccept(id) ==
    /\ id \notin DOMAIN background
    /\ progress_store' = update(progress_store, id, FALSE, 0, "created",
                                <<"Descarga creada">>, None, None)
    /\ background' = Put(background, id, "queued")
    /\ UNCHANGED <<executor, single_pc, runner_cancelled, result_success, hooks, request,
                   tool, cancel_history, response, multiVars, streamVars, runnerVars>>

\* background_download: loop.run_in_executor(executor, download_wrapper)
\* puts the work item on the pool's queue and the task awaits its result
PoolSubmit(id) ==
    /\ id \in DOMAIN background
    /\ background[id] = "queued"
    /\ executor' = [executor EXCEPT !.queue = Append(@, id)]
    /\ background' = [background EXCEPT ![id] = "submitted"]
    /\ UNCHANGED <<singleVars, response, multiVars, streamVars, runnerVars>>

\* A free worker thread takes the oldest work item and calls download_wrapper
WorkerTake ==
    /\ executor.queue # <<>>
    /\ WorkerFree(executor.running)
    /\ executor' = [queue |-> Tail(executor.queue),
                    running |-> executor.running \cup {Head(executor.queue)}]
    /\ background' = [background EXCEPT ![Head(executor.queue)] = "running"]
    /\ UNCHANGED <<singleVars, response, multiVars, streamVars, runnerVars>>

\* The runner, on its worker thread, reports progress
PoolRunnerUpdate(id) ==
    /\ id \in executor.running
    /\ progress_store' = update(progress_store, id, FALSE, 50, "downloading",
                                <<"Descargando">>, None, None)
    /\ UNCHANGED <<single_pc, runner_cancelled, result_success, hooks, request, tool,
                   cancel_history, response, multiVars, streamVars, poolVars, runnerVars>>

\* The runner returns its DownloadResult and the worker is free again; a
\* successful runner has written the completed snapshot
PoolRunnerReturn(id) ==
    /\ id \in executor.running
    /\ \E success \in BOOLEAN :
        /\ progress_store' =
              IF success
              THEN update(progress_store, id, FALSE, 100, "completed",
                          <<"Descarga completada", "file.mp3">>, None, "file.mp3")
              ELSE progress_store
        /\ background' = [background EXCEPT ![id] =
                              IF success THEN "done" ELSE "returned_failed"]
    /\ executor' = [executor EXCEPT !.running = @ \ {id}]
    /\ UNCHANGED <<single_pc, runner_cancelled, result_success, hooks, request, tool,
                   cancel_history, response, multiVars, streamVars, runnerVars>>

\* background_download: `if not result.success` writes the error
PoolResult(id) ==
    /\ id \in DOMAIN background
    /\ background[id] = "returned_failed"
    /\ progress_store' = update(progress_store, id, FALSE, 0, "error",
                                <<"Error", "err">>, "err", None)
    /\ background' = [background EXCEPT ![id] = "done"]
    /\ UNCHANGED <<executor, single_pc, runner_cancelled, result_success, hooks, request,
                   tool, cancel_history, response, multiVars, streamVars, runnerVars>>

\* POST /cancel/{id} and DELETE /progress/{id} for an accepted job
PoolCancel(id) == id \in DOMAIN background /\ cancel_download(id)

PoolCleanup(id) == id \in DOMAIN background /\ cleanup_progress(id)

PoolNext ==
    \E id \in PoolJobs :
        \/ PoolAccept(id)
        \/ PoolSubmit(id)
        \/ WorkerTake
        \/ PoolRunnerUpdate(id)
        \/ PoolRunnerReturn(id)
        \/ PoolResult(id)
        \/ PoolCancel(id)
        \/ PoolCleanup(id)

SpecPool == NoJobsInit /\ [][PoolNext]_vars

-----------------------------------------------------------------------------
(* Claims about the YouTube runner's hook, under SpecHook *)

\* C32: a downloading event with total_bytes > 0 and 0 <= downloaded_bytes <=
\* total_bytes stores progress 10 + floor(60 * downloaded_bytes / total_bytes),
\* which is within 10..70 and does not decrease as downloaded_bytes grows; a
\* downloading event with only a percentage stores
\* min(floor(percent * 0.6) + 10, 70); a finished event stores progress 70 with
\* the status converting.
C32_HookBands ==
    /\ [][(hooks' = hooks + 1 /\ lastCall'.op = "progress_hook")
             => LET d == lastCall'
                    written == progress_store'[SingleId]
                IN /\ (d.status = "downloading" /\ d.name = "bytes" /\ ~runner_cancelled)
                        => /\ written.progress
                                 = 10 + ((60 * d.index) \div HookTotalBytes)
                           /\ written.progress \in 10..70
                           /\ written.status = "downloading"
                   /\ (d.status = "downloading" /\ d.name = "percent" /\ ~runner_cancelled)
                        => /\ written.progress = Min(((d.progress * 6) \div 10) + 10, 70)
                           /\ written.status = "downloading"
                   /\ d.status = "finished"
                        => /\ written.progress = 70
                           /\ written.status = "converting"]_vars
    /\ [](\A d1, d2 \in 0..HookTotalBytes :
             d1 <= d2 => BandBytes(d1, HookTotalBytes) <= BandBytes(d2, HookTotalBytes))

C32_Witness ==
    /\ hooks = 2
    /\ lastCall.op = "progress_hook"
    /\ lastCall.name = "bytes"
    /\ lastCall.index = 1
    /\ SingleId \in DOMAIN progress_store
    /\ progress_store[SingleId].status = "downloading"
    /\ progress_store[SingleId].progress \in 11..69

\* The order of the statuses of a single job's state machine.
StatusChain == <<"created", "preparing", "downloading", "converting", "finalizing", "completed">>

StatusRank(status) == CHOOSE i \in 1..Len(StatusChain) : StatusChain[i] = status

\* C33: on the YouTube path every change of the status stored in the job's
\* registry entry away from a status of the chain created, preparing,
\* downloading, converting, finalizing, completed is a move forward along the
\* chain or a move to error or cancelled, whatever the order of the hook
\* events.
C33_StatusMovesForward ==
    [][(/\ SingleId \in DOMAIN progress_store
        /\ SingleId \in DOMAIN progress_store'
        /\ progress_store[SingleId].status \in {StatusChain[i] : i \in 1..Len(StatusChain)}
        /\ progress_store'[SingleId].status # progress_store[SingleId].status)
          => LET old == progress_store[SingleId].status
                 new == progress_store'[SingleId].status
             IN \/ new \in {"error", "cancelled"}
                \/ /\ new \in {StatusChain[i] : i \in 1..Len(StatusChain)}
                   /\ StatusRank(new) > StatusRank(old)]_vars

-----------------------------------------------------------------------------
(* Claims about the streams as readers, under SpecStream *)

\* C36: a step of a streamer (a poll, the end of its budget, its start)
\* leaves both registries as they were: it adds, removes and changes no field
\* of any entry, so the entry after the stream ended is the last snapshot the
\* runner wrote.
C36_StreamerIsPureReader ==
    [][stream' # stream => UNCHANGED <<progress_store, multi_download_store>>]_vars

\* C38: at the step that returns a job's id to the client (a single job, a
\* YouTube playlist job or a Spotify playlist job is accepted) the registry
\* of that kind of job holds an entry for the id, with status created, so a
\* streamer that polls from then on finds the entry; and an entry leaves its
\* registry only by a delete.
C38_AcceptedJobHasEntry ==
    [][/\ (single_pc = "idle" /\ single_pc' # "idle")
            => /\ SingleId \in DOMAIN progress_store'
               /\ progress_store'[SingleId].status = "created"
       /\ (multi_pc = "idle" /\ multi_pc' # "idle")
            => /\ MultiId \in DOMAIN multi_download_store'
               /\ multi_download_store'[MultiId].overall_status = "created"
       /\ (SingleId \in DOMAIN progress_store /\ SingleId \notin DOMAIN progress_store')
            => response' = "cleanup_200"
       /\ (MultiId \in DOMAIN multi_download_store
             /\ MultiId \notin DOMAIN multi_download_store')
            => response' = "multi_cleanup_200"]_vars

-----------------------------------------------------------------------------
(* Claims about the playlist job's snapshots, under SpecJobs *)

\* C37: whenever the snapshot of a playlist job has overall_status
\* completed, its overall_progress is 100.
C37_CompletedMeansHundred ==
    (MultiId \in DOMAIN multi_download_store
     /\ multi_download_store[MultiId].overall_status = "completed")
        => multi_download_store[MultiId].overall_progress = 100

\* C40: from one write of a playlist job's entry to the next, by whichever
\* tracker instance, total_files stays the same and completed_files and
\* failed_files do not decrease.
C40_TotalFixedCountersMonotone ==
    [][(MultiId \in DOMAIN multi_download_store
        /\ MultiId \in DOMAIN multi_download_store')
          => LET old == multi_download_store[MultiId]
                 new == multi_download_store'[MultiId]
             IN /\ new.total_files = old.total_files
                /\ new.completed_files >= old.completed_files
                /\ new.failed_files >= old.failed_files]_vars

-----------------------------------------------------------------------------
(* Claims about the Spotify playlist runner, under SpecSpotifyRunner *)

\* C39: the index cursor starts at 0 and never exceeds total_files, and the
\* tracker has counted exactly one complete_file call per index below it (so
\* at most total_files in all). On a line read: below total_files a line
\* containing Downloaded or Skipping calls complete_file for the cursor's
\* index, with success iff the line contains Downloaded, and advances the
\* cursor by exactly 1; any other non-empty line only calls
\* update_current_file for the cursor's index; an empty line, and every line
\* once the cursor equals total_files, makes no tracker call and leaves the
\* cursor where it is.
C39_SpotifyCursor ==
    /\ [](multi_pc = "sr_start" => current_file_index = 0)
    /\ [](current_file_index <= tracker.total_files)
    /\ [](tracker.completed_files + tracker.failed_files = current_file_index)
    /\ [][(multi_pc = "sr_lines" /\ multi_pc' = "sr_lines")
            => LET l == line'
                   c == current_file_index
                   n == tracker.total_files
                   marks == "Downloaded" \in l \/ "Skipping" \in l
               IN /\ (c < n /\ marks)
                       => /\ current_file_index' = c + 1
                          /\ lastCall' = [NoCall EXCEPT !.op = "complete_file",
                                                        !.index = c,
                                                        !.name = TrackName(c),
                                                        !.success = "Downloaded" \in l]
                          /\ tracker' = complete_file(tracker, c, TrackName(c),
                                                      "Downloaded" \in l, None).tracker
                  /\ (c < n /\ ~marks /\ l # {})
                       => /\ current_file_index' = c
                          /\ lastCall'.op = "update_current_file"
                          /\ lastCall'.index = c
                          /\ tracker'.completed_files = tracker.completed_files
                          /\ tracker'.failed_files = tracker.failed_files
                  /\ (c = n \/ l = {})
                       => UNCHANGED <<tracker, multi_download_store, lastCall,
                                      current_file_index>>]_vars

\* Lines kept arriving after the cursor reached total_files, with files of
\* both outcomes counted.
C39_Witness ==
    /\ multi_pc = "sr_lines"
    /\ current_file_index = tracker.total_files
    /\ tracker.completed_files > 0
    /\ tracker.failed_files > 0
    /\ line = {"Processing"}

-----------------------------------------------------------------------------
(* Claims about jobs with distinct ids, under SpecIds *)

\* The entry of id in both registries, as a set: empty when there is none.
EntriesOf(single_store, multi_store, id) ==
    {single_store[k] : k \in {id} \cap DOMAIN single_store}
        \cup {multi_store[k] : k \in {id} \cap DOMAIN multi_store}

\* C35: every tracker, cancel, delete and streamer operation performed for a
\* job id A leaves the registry entry of every other job id B as it was, in
\* both registries, whatever operations on A and B came before.
C35_OtherEntriesUnchanged ==
    [][\A A \in SingleIds \cup MultiIds :
          (\/ A \in SingleIds /\ SingleOperation(A)
           \/ A \in MultiIds /\ MultiOperation(A)
           \/ A = SingleId /\ SingleStreamer
           \/ A = MultiId /\ MultiStreamer)
            => \A B \in (SingleIds \cup MultiIds) \ {A} :
                  EntriesOf(progress_store', multi_download_store', B)
                      = EntriesOf(progress_store, multi_download_store, B)]_vars

\* Both ids of each registry have an entry, the entries of the two single
\* jobs differ, and the stream of SingleId ended on its completed entry.
C35_Witness ==
    /\ SingleIds \subseteq DOMAIN progress_store
    /\ progress_store[SingleId] # progress_store["s2"]
    /\ progress_store[SingleId].ready_for_download
    /\ stream.pc = "ended"

-----------------------------------------------------------------------------
(* Claims about the worker pool, under SpecPool *)

\* The jobs whose work item waits on the pool's queue.
Waiting == {executor.queue[i] : i \in 1..Len(executor.queue)}

\* C34: at most 2 runners handed to the pool execute at the same time,
\* whatever number of jobs was accepted; a job is executing only after a
\* worker took it, and while its work item waits on the queue no step of a
\* runner or of a background task changes its registry entry (only a cancel
\* or delete request for it does).
C34_AtMostTwoRunners ==
    /\ [](Cardinality(executor.running) <= 2)
    /\ [](\A id \in executor.running : background[id] = "running")
    /\ [](\A id \in Waiting : background[id] = "submitted" /\ id \notin executor.running)
    /\ [][\A id \in Waiting :
            id \in Waiting'
              => \/ EntriesOf(progress_store', multi_download_store', id)
                      = EntriesOf(progress_store, multi_download_store, id)
                 \/ response' \in {"cancel_200", "cleanup_200"}]_vars

\* Two runners execute, one of them has reported progress, and a third job
\* waits with the entry its acceptance wrote.
C34_Witness ==
    /\ Cardinality(executor.running) = 2
    /\ \E id \in executor.running : /\ id \in DOMAIN progress_store
                                     /\ progress_store[id].status = "downloading"
    /\ \E id \in Waiting : /\ id \in DOMAIN progress_store
                            /\ progress_store[id].status = "created"

=============================================================================
